---- MODULE Spec2Model ----
(***************************************************************************)
(* A model of the CBOR JavaScript API (cyberphone/cbor-js-api): the value  *)
(* classes CBOR.Int .. CBOR.Tag with their encode() methods, the sorted    *)
(* linked list behind CBOR.Map, the header codec encodeTagAndN and the     *)
(* decoder (#_decoder.getObject, CBOR.decode, CBOR.decodeExtended).        *)
(*                                                                         *)
(* Bytes are the integers 0..255, byte arrays are sequences of bytes.      *)
(* JavaScript integers (Number within the safe range, BigInt) are          *)
(* unbounded here as in the program: an integer is a sign and a magnitude, *)
(* the magnitude a big-endian sequence of base-256 digits without leading  *)
(* zero digits (zero is the empty sequence).                               *)
(***************************************************************************)
EXTENDS Integers, Sequences, FiniteSets, TLC

VARIABLES
    pc,     \* where the modelled caller stands
    obj,    \* the CBOR object the caller holds
    cbor,   \* the byte array last produced by encode() or handed to decode
    res,    \* the outcome of the last call
    hist    \* the key/value pairs set and not removed since (history)

vars == <<pc, obj, cbor, res, hist>>

(***************************************************************************)
(* Bounds of the model.                                                    *)
(***************************************************************************)
\* Longest magnitude, in bytes, of the integers handed to the integer codecs.
MaxBytes == 9

(***************************************************************************)
(* Bit operations of JavaScript on small non-negative integers.            *)
(***************************************************************************)
\* JavaScript evaluates an expression once, where it stands: Once(v, Op) is
\* Op applied to the value of v.
Once(v, Op(_)) == CHOOSE r \in {Op(x) : x \in {v}} : TRUE

RECURSIVE BitAnd(_, _)
BitAnd(a, b) ==
    IF a = 0 \/ b = 0 THEN 0
    ELSE (a % 2) * (b % 2) + 2 * BitAnd(a \div 2, b \div 2)

RECURSIVE BitOr(_, _)
BitOr(a, b) ==
    IF a = 0 THEN b
    ELSE IF b = 0 THEN a
    ELSE (IF a % 2 = 1 \/ b % 2 = 1 THEN 1 ELSE 0) + 2 * BitOr(a \div 2, b \div 2)

RECURSIVE ShiftLeft(_, _)
ShiftLeft(a, k) == IF k = 0 THEN a ELSE ShiftLeft(2 * a, k - 1)

RECURSIVE ShiftRight(_, _)
ShiftRight(a, k) == IF k = 0 THEN a ELSE ShiftRight(a \div 2, k - 1)

(***************************************************************************)
(* Unbounded naturals as big-endian base-256 digit sequences.              *)
(***************************************************************************)
RECURSIVE Zeros(_)
Zeros(k) == IF k = 0 THEN <<>> ELSE Append(Zeros(k - 1), 0)

RECURSIVE StripZeros(_)
StripZeros(s) ==
    IF s = <<>> THEN <<>>
    ELSE IF Head(s) = 0 THEN StripZeros(Tail(s))
    ELSE s

RECURSIVE NatOf(_)
NatOf(k) == IF k = 0 THEN <<>> ELSE Append(NatOf(k \div 256), k % 256)

RECURSIVE ToInt(_)
ToInt(a) == IF a = <<>> THEN 0 ELSE 256 * ToInt(SubSeq(a, 1, Len(a) - 1)) + a[Len(a)]

RECURSIVE LexCmp(_, _)
LexCmp(a, b) ==
    IF a = <<>> THEN 0
    ELSE IF Head(a) # Head(b) THEN Head(a) - Head(b)
    ELSE LexCmp(Tail(a), Tail(b))

\* < 0, = 0, > 0 as a < b, a = b, a > b
NatCmp(a, b) == IF Len(a) # Len(b) THEN Len(a) - Len(b) ELSE LexCmp(a, b)

RECURSIVE NatInc(_)
NatInc(a) ==
    IF a = <<>> THEN <<1>>
    ELSE IF a[Len(a)] < 255 THEN [a EXCEPT ![Len(a)] = @ + 1]
    ELSE Append(NatInc(SubSeq(a, 1, Len(a) - 1)), 0)

RECURSIVE NatDecRaw(_)
NatDecRaw(a) ==
    IF a[Len(a)] > 0 THEN [a EXCEPT ![Len(a)] = @ - 1]
    ELSE Append(NatDecRaw(SubSeq(a, 1, Len(a) - 1)), 255)

\* a - 1 for a > 0
NatDec(a) == StripZeros(NatDecRaw(a))

\* a * 256^k
NatShl8(a, k) == IF a = <<>> THEN <<>> ELSE a \o Zeros(k)

\* the square of a power of 256
NatSquarePow(a) == NatShl8(a, Len(a) - 1)

\* a % 256 and floor(a / 256)
LowByte(a) == IF a = <<>> THEN 0 ELSE a[Len(a)]
NatShr8(a) == IF a = <<>> THEN <<>> ELSE SubSeq(a, 1, Len(a) - 1)

(***************************************************************************)
(* The header bytes of the program.                                        *)
(***************************************************************************)
MT_UNSIGNED     == 0
MT_NEGATIVE     == 32
MT_BYTES        == 64
MT_STRING       == 96
MT_ARRAY        == 128
MT_MAP          == 160
MT_TAG          == 192
MT_BIG_UNSIGNED == 194
MT_BIG_NEGATIVE == 195
MT_FALSE        == 244
MT_TRUE         == 245
MT_NULL         == 246
MT_FLOAT16      == 249
MT_FLOAT32      == 250
MT_FLOAT64      == 251

\* Number.MAX_SAFE_INTEGER = 2^53 - 1 = 0x1fffffffffffff
MAX_SAFE_INTEGER == <<31, 255, 255, 255, 255, 255, 255>>

addArrays(a, b) == a \o b

\* In place of compareArrays: the lengths alone decide.
compareArrays_lengthOnly(a, b) == Len(a) - Len(b)

\* CBOR.compareArrays: the first differing byte decides, then the lengths.
compareArrays(a, b) ==
    LET minIndex == IF Len(a) < Len(b) THEN Len(a) ELSE Len(b)
        differ   == {i \in 1..minIndex : a[i] - b[i] # 0}
    IN  IF differ = {} THEN Len(a) - Len(b)
        ELSE LET i == CHOOSE x \in differ : \A y \in differ : x <= y
             IN  a[i] - b[i]

(***************************************************************************)
(* CBOR.#encodeTagAndN(majorType, n), n a natural.  The program holds n    *)
(* and nextRange as doubles; every value they take here (n <= 2^53 - 1,    *)
(* nextRange in 2^8, 2^16, 2^32, 2^64) is exact.  Storing n into the       *)
(* Uint8Array keeps floor(n) mod 256, so the fraction n /= 256 leaves      *)
(* never shows and n is kept as floor(n).                                  *)
(***************************************************************************)
\* The range search with n > nextRange in place of n >= nextRange.
RECURSIVE encodeTagAndN_rangeGt(_, _, _, _)
encodeTagAndN_rangeGt(n, modifier, length, nextRange) ==
    IF length < 8 /\ NatCmp(n, nextRange) > 0
    THEN encodeTagAndN_rangeGt(n, modifier + 1, ShiftLeft(length, 1), NatSquarePow(nextRange))
    ELSE [modifier |-> modifier, length |-> length]

RECURSIVE encodeTagAndN_range(_, _, _, _)
encodeTagAndN_range(n, modifier, length, nextRange) ==
    IF length < 8 /\ NatCmp(n, nextRange) >= 0
    THEN encodeTagAndN_range(n, modifier + 1, ShiftLeft(length, 1), NatSquarePow(nextRange))
    ELSE [modifier |-> modifier, length |-> length]

RECURSIVE encodeTagAndN_fill(_, _, _)
encodeTagAndN_fill(encoded, length, n) ==
    IF length > 0
    THEN encodeTagAndN_fill([encoded EXCEPT ![length + 1] = LowByte(n)], length - 1, NatShr8(n))
    ELSE encoded

encodeTagAndN(majorType, n) ==
    LET r == IF NatCmp(n, NatOf(23)) > 0
             THEN encodeTagAndN_range(n, 24, 1, NatOf(256))
             ELSE [modifier |-> ToInt(n), length |-> 0]
        encoded == [Zeros(r.length + 1) EXCEPT ![1] = BitOr(majorType, r.modifier)]
    IN  encodeTagAndN_fill(encoded, r.length, n)

(***************************************************************************)
(* Integers: [neg, mag] stands for mag (neg = FALSE) or -mag (neg = TRUE,  *)
(* mag > 0).  JavaScript's -n - 1 and ~n of a negative n are mag - 1, and  *)
(* ~n of a non-negative n is -(n + 1).                                      *)
(***************************************************************************)
\* CBOR.#intCheck: Number.isSafeInteger(value)
intCheck(v) == NatCmp(v.mag, MAX_SAFE_INTEGER) <= 0

\* CBOR.Int(value).encode()
IntEncode(value) ==
    LET tag == IF value.neg THEN MT_NEGATIVE ELSE MT_UNSIGNED
        n   == IF value.neg THEN NatDec(value.mag) ELSE value.mag
    IN  encodeTagAndN(tag, n)

\* CBOR.Bytes(bytes).encode()
BytesEncode(bytes) == addArrays(encodeTagAndN(MT_BYTES, NatOf(Len(bytes))), bytes)

RECURSIVE Reverse(_)
Reverse(s) == IF s = <<>> THEN <<>> ELSE Append(Reverse(Tail(s)), Head(s))

\* do { array.push(Number(temp & 255n)); temp >>= 8n; } while (temp);
RECURSIVE BigIntEncode_split(_, _)
BigIntEncode_split(array, temp) ==
    LET pushed  == Append(array, LowByte(temp))
        shifted == NatShr8(temp)
    IN  IF shifted # <<>> THEN BigIntEncode_split(pushed, shifted) ELSE pushed

\* The byte array left as split, without the padding loop.
BigIntEncode_unpadded(array) == array

\* while (length < 8 && length > 2 && length != 4) { array.push(0); length++; }
RECURSIVE BigIntEncode_pad(_)
BigIntEncode_pad(array) ==
    IF Len(array) < 8 /\ Len(array) > 2 /\ Len(array) # 4
    THEN BigIntEncode_pad(Append(array, 0))
    ELSE array

\* The additional-information value fixed at the 8-byte form.
BigIntEncode_modifier8(length, modifier) == 27

\* let modifier = 24; while (length >>= 1) { modifier++; }
RECURSIVE BigIntEncode_modifier(_, _)
BigIntEncode_modifier(length, modifier) ==
    IF ShiftRight(length, 1) # 0
    THEN BigIntEncode_modifier(ShiftRight(length, 1), modifier + 1)
    ELSE modifier

\* CBOR.BigInt(value).encode()
BigIntEncode(v) ==
    LET tag       == IF v.neg THEN MT_NEGATIVE ELSE MT_UNSIGNED
        value     == IF v.neg THEN NatDec(v.mag) ELSE v.mag
        array     == BigIntEncode_pad(BigIntEncode_split(<<>>, value))
        length    == Len(array)
        byteArray == Reverse(array)
    IN  IF length <= 8
        THEN IF length = 1 /\ byteArray[1] < 24
             THEN <<BitOr(tag, byteArray[1])>>
             ELSE addArrays(<<BitOr(tag, BigIntEncode_modifier(length, 24))>>, byteArray)
        ELSE addArrays(<<IF tag = MT_NEGATIVE THEN MT_BIG_NEGATIVE ELSE MT_BIG_UNSIGNED>>,
                       BytesEncode(byteArray))

(***************************************************************************)
(* Text.  A string is a sequence of code points; a value in 0xD800..0xDFFF *)
(* stands for a lone surrogate code unit.  TextEncoder and TextDecoder are *)
(* the platform's UTF-8 codec (WHATWG Encoding): the encoder writes U+FFFD *)
(* for a lone surrogate, the fatal decoder fails on a malformed sequence   *)
(* and, ignoreBOM being false, drops a leading byte order mark.            *)
(***************************************************************************)
utf8OfCodePoint(c) ==
    IF c < 128 THEN <<c>>
    ELSE IF c < 2048 THEN <<192 + (c \div 64), 128 + (c % 64)>>
    ELSE IF c >= 55296 /\ c <= 57343 THEN <<239, 191, 189>>
    ELSE IF c < 65536 THEN <<224 + (c \div 4096), 128 + ((c \div 64) % 64), 128 + (c % 64)>>
    ELSE <<240 + (c \div 262144), 128 + ((c \div 4096) % 64),
           128 + ((c \div 64) % 64), 128 + (c % 64)>>

\* The encodings of the code points, concatenated in their order.
RECURSIVE TextEncoder_encode(_)
TextEncoder_encode(string) ==
    IF string = <<>> THEN <<>>
    ELSE IF Len(string) = 1 THEN utf8OfCodePoint(string[1])
    ELSE TextEncoder_encode(SubSeq(string, 1, Len(string) \div 2))
            \o TextEncoder_encode(SubSeq(string, Len(string) \div 2 + 1, Len(string)))

\* The decoder's state machine, by position: a byte outside 80..bf starts a
\* sequence, its value tells how many continuation bytes are needed and the
\* bounds of the first of them.
utf8Continuation(b) == b >= 128 /\ b <= 191
utf8Needed(b) ==
    CASE b < 128 -> 0
      [] b >= 194 /\ b <= 223 -> 1
      [] b >= 224 /\ b <= 239 -> 2
      [] b >= 240 /\ b <= 244 -> 3
      [] OTHER -> -1
utf8Lower(b) == IF b = 224 THEN 160 ELSE IF b = 240 THEN 144 ELSE 128
utf8Upper(b) == IF b = 237 THEN 159 ELSE IF b = 244 THEN 143 ELSE 191

\* The sequence that starts at position i is well formed and is followed by
\* the start of another sequence or by the end of the input.
utf8WellFormedAt(bytes, i) ==
    LET needed == utf8Needed(bytes[i]) IN
    /\ needed >= 0
    /\ i + needed <= Len(bytes)
    /\ \A k \in 1..needed :
          IF k = 1
          THEN bytes[i + 1] >= utf8Lower(bytes[i]) /\ bytes[i + 1] <= utf8Upper(bytes[i])
          ELSE utf8Continuation(bytes[i + k])
    /\ i + needed < Len(bytes) => ~utf8Continuation(bytes[i + needed + 1])

\* The code point of the sequence that starts at position i.
utf8CodePointAt(bytes, i) ==
    CASE utf8Needed(bytes[i]) = 0 -> bytes[i]
      [] utf8Needed(bytes[i]) = 1 -> (bytes[i] % 32) * 64 + (bytes[i + 1] % 64)
      [] utf8Needed(bytes[i]) = 2 ->
            ((bytes[i] % 16) * 64 + (bytes[i + 1] % 64)) * 64 + (bytes[i + 2] % 64)
      [] OTHER ->
            (((bytes[i] % 8) * 64 + (bytes[i + 1] % 64)) * 64 + (bytes[i + 2] % 64)) * 64
                + (bytes[i + 3] % 64)

\* [ok, string]: the fatal decoder fails on the first malformed sequence.
utf8Decode(bytes) ==
    LET starts == SelectSeq([i \in 1..Len(bytes) |-> i], LAMBDA i : ~utf8Continuation(bytes[i]))
    IN  IF /\ Len(bytes) > 0 => ~utf8Continuation(bytes[1])
           /\ \A j \in 1..Len(starts) : utf8WellFormedAt(bytes, starts[j])
        THEN [ok     |-> TRUE,
              string |-> <<>> \o [j \in 1..Len(starts) |-> utf8CodePointAt(bytes, starts[j])]]
        ELSE [ok |-> FALSE, string |-> <<>>]

\* new TextDecoder('utf-8', {fatal: true}).decode(bytes)
TextDecoder_decode(bytes) ==
    LET hasBOM == Len(bytes) >= 3 /\ SubSeq(bytes, 1, 3) = <<239, 187, 191>>
    IN  utf8Decode(IF hasBOM THEN SubSeq(bytes, 4, Len(bytes)) ELSE bytes)

\* CBOR.String(string).encode()
StringEncode(string) ==
    LET utf8 == TextEncoder_encode(string)
    IN  addArrays(encodeTagAndN(MT_STRING, NatOf(Len(utf8))), utf8)

(***************************************************************************)
(* CBOR.Float.  A JavaScript number is held as the eight bytes u8 of its   *)
(* IEEE 754 binary64 pattern, big-endian (what #f64ToByteArray returns);   *)
(* NaN is the one pattern 7ff8000000000000.  The 52 significand bits are   *)
(* split into the upper 23 (hi) and the lower 29 (lo).                     *)
(***************************************************************************)
f64Sign(u8) == u8[1] \div 128
f64Exp(u8)  == (u8[1] % 128) * 16 + (u8[2] \div 16)
f64Hi(u8)   == (u8[2] % 16) * 524288 + u8[3] * 2048 + u8[4] * 8 + (u8[5] \div 32)
f64Lo(u8)   == (u8[5] % 32) * 16777216 + u8[6] * 65536 + u8[7] * 256 + u8[8]

f64Of(sign, exp, hi, lo) ==
    << sign * 128 + (exp \div 16),
       (exp % 16) * 16 + (hi \div 524288),
       (hi \div 2048) % 256,
       (hi \div 8) % 256,
       (hi % 8) * 32 + (lo \div 16777216),
       (lo \div 65536) % 256,
       (lo \div 256) % 256,
       lo % 256 >>

f64NaN == <<127, 248, 0, 0, 0, 0, 0, 0>>

isNaN(u8)    == f64Exp(u8) = 2047 /\ (f64Hi(u8) # 0 \/ f64Lo(u8) # 0)
isFinite(u8) == f64Exp(u8) # 2047
isZero(u8)   == f64Exp(u8) = 0 /\ f64Hi(u8) = 0 /\ f64Lo(u8) = 0

RECURSIVE highBit(_)
highBit(k) == IF k <= 1 THEN 0 ELSE 1 + highBit(k \div 2)

\* A Math.fround that returns its argument unrounded.
fround_unrounded(u8) == u8

\* Math.fround: round to the nearest binary32 (ties to even), as a binary64.
fround(u8) ==
    LET s  == f64Sign(u8)
        e  == f64Exp(u8)
        hi == f64Hi(u8)
        lo == f64Lo(u8)
        E  == e - 1023
    IN  IF e = 2047 THEN u8
        ELSE IF e = 0 THEN f64Of(s, 0, 0, 0)
        ELSE IF E >= -126
        THEN LET up  == lo > 268435456 \/ (lo = 268435456 /\ hi % 2 = 1)
                 m   == hi + (IF up THEN 1 ELSE 0)
                 E2  == IF m = 8388608 THEN E + 1 ELSE E
                 m2  == IF m = 8388608 THEN 0 ELSE m
             IN  IF E2 > 127 THEN f64Of(s, 2047, 0, 0) ELSE f64Of(s, E2 + 1023, m2, 0)
        ELSE LET sh == -(E + 126) IN
             IF sh > 24 THEN f64Of(s, 0, 0, 0)
             ELSE LET sig  == 8388608 + hi
                      unit == ShiftLeft(1, sh)
                      q    == sig \div unit
                      r    == sig % unit
                      half == unit \div 2
                      up   == r > half \/ (r = half /\ lo > 0)
                                       \/ (r = half /\ lo = 0 /\ q % 2 = 1)
                      k    == q + (IF up THEN 1 ELSE 0)
                      p    == highBit(k)
                  IN  IF k = 0 THEN f64Of(s, 0, 0, 0)
                      ELSE f64Of(s, p - 149 + 1023, ShiftLeft(k - ShiftLeft(1, p), 23 - p), 0)

\* CBOR.#int16ToByteArray: a Uint8Array keeps floor(x) mod 256 of what it is given
int16ToByteArray(int16) == <<(int16 \div 256) % 256, int16 % 256>>

\* do { if (f32signif & 1) throw ...; f32signif >>= 1; } while (++f32exp < 0);
RECURSIVE Float_f32denorm(_, _)
Float_f32denorm(f32signif, f32exp) ==
    IF BitAnd(f32signif, 1) # 0 THEN [err |-> "unexpected offscale", signif |-> f32signif]
    ELSE IF f32exp + 1 < 0 THEN Float_f32denorm(ShiftRight(f32signif, 1), f32exp + 1)
    ELSE [err |-> "", signif |-> ShiftRight(f32signif, 1)]

\* The f16 shift loop without its test for a bit that falls off.
RECURSIVE Float_f16denormTruncating(_, _)
Float_f16denormTruncating(f16signif, f16exp) ==
    IF f16signif = 0 THEN 0
    ELSE IF f16exp + 1 < 0 THEN Float_f16denormTruncating(ShiftRight(f16signif, 1), f16exp + 1)
    ELSE ShiftRight(f16signif, 1)

\* do { if (f16signif & 1) { f16signif = 0; break; } f16signif >>= 1; } while (++f16exp < 0);
RECURSIVE Float_f16denorm(_, _)
Float_f16denorm(f16signif, f16exp) ==
    IF BitAnd(f16signif, 1) # 0 THEN 0
    ELSE IF f16exp + 1 < 0 THEN Float_f16denorm(ShiftRight(f16signif, 1), f16exp + 1)
    ELSE ShiftRight(f16signif, 1)

\* The part of the constructor that handles a genuine (finite, non-zero) number.
\* f32bin itself may reach 2^32: its upper and lower 16 bits are formed apart.
Float_genuine(u8) ==
    IF fround(u8) # u8
    THEN [err |-> "", tag |-> MT_FLOAT64, encoded |-> u8]
    ELSE
    LET f32exp0 == BitAnd(u8[1], 127) * 16 + ShiftRight(BitAnd(u8[2], 240), 4) - 1023 + 127
        badFrac == BitAnd(u8[5], 31) # 0 \/ u8[6] # 0 \/ u8[7] # 0 \/ u8[8] # 0
        signif0 == BitAnd(u8[2], 15) * 524288 + u8[3] * 2048 + u8[4] * 8 + ShiftRight(u8[5], 5)
        den     == IF f32exp0 <= 0
                   THEN Float_f32denorm(signif0 + 8388608, f32exp0 - 1)
                   ELSE [err |-> "", signif |-> signif0]
        f32exp    == IF f32exp0 <= 0 THEN 0 ELSE f32exp0
        f32signif == den.signif
        low31     == f32exp * 8388608 + f32signif
        f32enc    == addArrays(int16ToByteArray(BitAnd(u8[1], 128) * 256 + low31 \div 65536),
                               int16ToByteArray(low31 % 65536))
        f32       == [err |-> "", tag |-> MT_FLOAT32, encoded |-> f32enc]
        f16exp0   == f32exp - 127 + 15
        f16sig0   == ShiftRight(f32signif, 13)
        f16signif == IF f16exp0 <= 0 THEN Float_f16denorm(f16sig0 + 1024, f16exp0 - 1)
                     ELSE f16sig0
        f16exp    == IF f16exp0 <= 0 THEN 0 ELSE f16exp0
        f16bin    == BitAnd(u8[1], 128) * 256 + f16exp * 1024 + f16signif
    IN  IF badFrac THEN [err |-> "unexpected fraction", tag |-> MT_FLOAT32, encoded |-> <<>>]
        ELSE IF den.err # "" THEN [err |-> den.err, tag |-> MT_FLOAT32, encoded |-> <<>>]
        ELSE IF f32exp = 0 \/ BitAnd(f32signif, 8191) # 0 THEN f32
        ELSE IF f16exp0 > 30 THEN f32
        ELSE IF f16exp0 <= 0 /\ f16signif = 0 THEN f32
        ELSE [err |-> "", tag |-> MT_FLOAT16, encoded |-> int16ToByteArray(f16bin)]

\* The constructor without its branches for NaN, the infinities and the zeros.
CBOR_FloatGenuineOnly(u8) ==
    LET c == Float_genuine(u8)
    IN  [kind |-> "Float", value |-> u8, tag |-> c.tag, encoded |-> c.encoded, err |-> c.err]

\* CBOR.Float(value): the constructor fixes #tag and #encoded
CBOR_Float(u8) ==
    LET c == IF isNaN(u8)
             THEN [err |-> "", tag |-> MT_FLOAT16, encoded |-> int16ToByteArray(32256)]
             ELSE IF ~isFinite(u8)
             THEN [err |-> "", tag |-> MT_FLOAT16,
                   encoded |-> int16ToByteArray(IF f64Sign(u8) = 1 THEN 64512 ELSE 31744)]
             ELSE IF isZero(u8)
             THEN [err |-> "", tag |-> MT_FLOAT16,
                   encoded |-> int16ToByteArray(IF f64Sign(u8) = 1 THEN 32768 ELSE 0)]
             ELSE Float_genuine(u8)
    IN  [kind |-> "Float", value |-> u8, tag |-> c.tag, encoded |-> c.encoded, err |-> c.err]

\* CBOR.Float.encode()
FloatEncode(o) == addArrays(<<o.tag>>, o.encoded)

(***************************************************************************)
(* The CBOR objects.  Every object is a record with its class name in      *)
(* kind and the private fields of that class.  A CBOR.Map holds its        *)
(* entries as the program does, in a linked list: entries is the heap of   *)
(* the Entry objects the map ever linked (an Entry is named by its index,  *)
(* 0 is null/undefined), root and lastEntry point into it.                 *)
(***************************************************************************)
CBOR_Int(value)        == [kind |-> "Int", value |-> value]
CBOR_BigInt(value)     == [kind |-> "BigInt", value |-> value]
CBOR_String(string)    == [kind |-> "String", string |-> string]
CBOR_Bytes(bytes)      == [kind |-> "Bytes", bytes |-> bytes]
CBOR_Bool(bool)        == [kind |-> "Bool", bool |-> bool]
CBOR_Null            == [kind |-> "Null"]
CBOR_Array(elements)   == [kind |-> "Array", elements |-> elements]
CBOR_Tag(tagNumber, object) == [kind |-> "Tag", tagNumber |-> tagNumber, object |-> object]
CBOR_Map ==
    [kind |-> "Map", entries |-> <<>>, root |-> 0, lastEntry |-> 0, numberOfEntries |-> 0,
     constrainedKeys |-> FALSE, deterministicMode |-> FALSE]

\* An argument that is no CBOR object (undefined, null, a number, ...).
NotCBOR == [kind |-> "undefined"]

\* CBOR.#cborArguentCheck, and the test in equals: object instanceof
\* CBOR.#CBORObject, which undefined, null and other non-CBOR arguments fail.
cborArguentCheck(object) == object.kind \notin {"undefined", "null"}

\* constrainedKeyType(): overridden (false) by CBOR.Int and CBOR.String
constrainedKeyType(object) == object.kind \notin {"Int", "String"}

RECURSIVE encode(_)
RECURSIVE ArrayEncode_each(_, _, _)
RECURSIVE MapEncode_walk(_, _, _)

\* CBOR.Array.encode(): this.#elements.forEach(...)
ArrayEncode_each(elements, i, encoded) ==
    IF i > Len(elements) THEN encoded
    ELSE ArrayEncode_each(elements, i + 1, addArrays(encoded, encode(elements[i])))

\* CBOR.Map.encode(): for (let entry = this.#root; entry; entry = entry.next)
MapEncode_walk(m, entry, encoded) ==
    IF entry = 0 THEN encoded
    ELSE MapEncode_walk(m, m.entries[entry].next,
                        addArrays(encoded, addArrays(encode(m.entries[entry].key),
                                                     encode(m.entries[entry].value))))

MapEncode(m) ==
    MapEncode_walk(m, m.root, encodeTagAndN(MT_MAP, NatOf(m.numberOfEntries)))

\* An encode() that walks the list by moving #root along it.
MapEncode_thisUnlinked(m) == [m EXCEPT !.root = 0]

\* The Map object after CBOR.Map.encode(): the loop reads #root, next, key and
\* value and assigns to the locals encoded and entry only.
MapEncode_this(m) == m

\* object.encode()
encode(o) ==
    CASE o.kind = "Int"    -> IntEncode(o.value)
      [] o.kind = "BigInt" -> BigIntEncode(o.value)
      [] o.kind = "Float"  -> FloatEncode(o)
      [] o.kind = "String" -> StringEncode(o.string)
      [] o.kind = "Bytes"  -> BytesEncode(o.bytes)
      [] o.kind = "Bool"   -> <<IF o.bool THEN MT_TRUE ELSE MT_FALSE>>
      [] o.kind = "Null"   -> <<MT_NULL>>
      [] o.kind = "Array"  ->
            ArrayEncode_each(o.elements, 1, encodeTagAndN(MT_ARRAY, NatOf(Len(o.elements))))
      [] o.kind = "Map"    -> MapEncode(o)
      [] o.kind = "Tag"    ->
            addArrays(encodeTagAndN(MT_TAG, o.tagNumber), encode(o.object))

\* In place of equals: equal encodings of objects of the same class only.
equals_sameClass(this, object) ==
    IF cborArguentCheck(object)
    THEN this.kind = object.kind /\ compareArrays(encode(this), encode(object)) = 0
    ELSE FALSE

\* #CBORObject.equals
equals(this, object) ==
    IF cborArguentCheck(object)
    THEN compareArrays(encode(this), encode(object)) = 0
    ELSE FALSE

\* object._get(): the private value of an Int, BigInt, String, Bytes, Bool, Float
CBOR_get(o) ==
    CASE o.kind \in {"Int", "BigInt", "Float"} -> o.value
      [] o.kind = "String" -> o.string
      [] o.kind = "Bytes"  -> o.bytes
      [] o.kind = "Bool"   -> o.bool
      [] OTHER             -> o

\* #CBORObject.#checkTypeAndGetValue(className): [err, value]
checkTypeAndGetValue(o, className) ==
    IF o.kind # className
    THEN [err |-> "Invalid method call for object", value |-> NotCBOR]
    ELSE [err |-> "", value |-> CBOR_get(o)]

\* getInt without its test for a CBOR.BigInt.
getInt_typeCheckOnly(o) == checkTypeAndGetValue(o, "Int")

\* #CBORObject.getInt(): [err, value]
getInt(o) ==
    IF o.kind = "BigInt"
    THEN [err |-> "Integer is outside of Number.MAX_SAFE_INTEGER, use getBigInt()",
          value |-> NotCBOR]
    ELSE checkTypeAndGetValue(o, "Int")

\* #CBORObject.getBigInt(): [err, value]
getBigInt(o) ==
    IF o.kind = "Int" THEN [err |-> "", value |-> CBOR_get(o)]
    ELSE checkTypeAndGetValue(o, "BigInt")

\* new CBOR.Map.Entry(key, value)
Entry(key, value) ==
    [key |-> key, encodedKey |-> encode(key), value |-> value, next |-> 0]

\* compare with its two arrays swapped.
Entry_compareSwapped(entry, encodedKey) == compareArrays(encodedKey, entry.encodedKey)

\* compare that reports an equal key as a greater one.
Entry_compareNoEqual(entry, encodedKey) ==
    IF compareArrays(entry.encodedKey, encodedKey) = 0 THEN -1
    ELSE compareArrays(entry.encodedKey, encodedKey)

\* Entry.compare(encodedKey)
Entry_compare(entry, encodedKey) == compareArrays(entry.encodedKey, encodedKey)

\* In place of the sorted insert: the new Entry is linked behind #lastEntry.
MapSet_appended(m, id, entry, precedingEntry, diff) ==
    [err |-> "", map |-> [m EXCEPT !.entries[m.lastEntry].next = id]]

\* The sorted-insert loop of CBOR.Map.set; m already holds the new Entry at
\* index id, unlinked.  entry, precedingEntry and diff are the loop's variables.
RECURSIVE MapSet_sorted(_, _, _, _, _)
MapSet_sorted(m, id, entry, precedingEntry, diff) ==
    IF entry = 0
    THEN \* the loop ran to the end of the list
         IF diff < 0
         THEN [err |-> "", map |-> [m EXCEPT !.entries[precedingEntry].next = id]]
         ELSE [err |-> "", map |-> m]
    ELSE LET d == Entry_compare(m.entries[entry], m.entries[id].encodedKey) IN
         IF d = 0 THEN [err |-> "Duplicate", map |-> m]
         ELSE IF d > 0
         THEN IF precedingEntry = 0
              THEN [err |-> "",
                    map |-> [m EXCEPT !.entries[id].next = m.root, !.root = id]]
              ELSE [err |-> "",
                    map |-> [m EXCEPT !.entries[id].next = entry,
                                      !.entries[precedingEntry].next = id]]
         ELSE MapSet_sorted(m, id, m.entries[entry].next, entry, d)

\* The linking step with the _deterministicMode branch left out: every key is
\* placed by the sorted insert.
MapSet_linkSortedOnly(m, key, value) ==
    IF m.root # 0
    THEN IF m.constrainedKeys /\ m.entries[m.lastEntry].key.kind # key.kind
         THEN [err |-> "Constrained key option disallows mixing types", map |-> m]
         ELSE MapSet_sorted([m EXCEPT !.entries = Append(@, Entry(key, value))],
                            Len(m.entries) + 1, m.root, 0, 0)
    ELSE [err |-> "",
          map |-> [m EXCEPT !.entries = Append(@, Entry(key, value)),
                            !.root = Len(m.entries) + 1]]

\* The linking step of CBOR.Map.set once the arguments are checked.
MapSet_link(m, key, value) ==
    LET id == Len(m.entries) + 1
        m1 == [m EXCEPT !.entries = Append(@, Entry(key, value))]
        diff == Entry_compare(m.entries[m.lastEntry], m1.entries[id].encodedKey)
    IN  IF m.root # 0
        THEN IF m.constrainedKeys /\ m.entries[m.lastEntry].key.kind # key.kind
             THEN [err |-> "Constrained key option disallows mixing types", map |-> m]
             ELSE IF m.deterministicMode
             THEN IF diff >= 0
                  THEN [err |-> IF diff # 0 THEN "Non-deterministic order" ELSE "Duplicate",
                        map |-> m]
                  ELSE [err |-> "", map |-> [m1 EXCEPT !.entries[m.lastEntry].next = id]]
             ELSE MapSet_sorted(m1, id, m1.root, 0, 0)
        ELSE [err |-> "", map |-> [m1 EXCEPT !.root = id]]

\* set without this.#numberOfEntries++.
MapSet_uncounted(m, key, value) ==
    IF ~cborArguentCheck(key) \/ ~cborArguentCheck(value)
    THEN [err |-> "Argument is not a CBOR object", map |-> m]
    ELSE IF m.constrainedKeys /\ constrainedKeyType(key)
    THEN [err |-> "Constrained key option disallows", map |-> m]
    ELSE IF MapSet_link(m, key, value).err # ""
    THEN [err |-> MapSet_link(m, key, value).err, map |-> m]
    ELSE [err |-> "",
          map |-> [MapSet_link(m, key, value).map EXCEPT
                      !.lastEntry = Len(MapSet_link(m, key, value).map.entries)]]

\* CBOR.Map.set(key, value): [err, map]; err = "" is a normal return, and a call
\* that throws leaves the map as it was.
MapSet(m, key, value) ==
    IF ~cborArguentCheck(key) \/ ~cborArguentCheck(value)
    THEN [err |-> "Argument is not a CBOR object", map |-> m]
    ELSE IF m.constrainedKeys /\ constrainedKeyType(key)
    THEN [err |-> "Constrained key option disallows", map |-> m]
    ELSE LET r == MapSet_link(m, key, value) IN
         IF r.err # "" THEN [err |-> r.err, map |-> m]
         ELSE [err |-> "",
               map |-> [r.map EXCEPT !.lastEntry = Len(r.map.entries),
                                     !.numberOfEntries = @ + 1]]

\* CBOR.Map.#lookup(key, mustExist): the entry found, or 0
RECURSIVE MapLookup_walk(_, _, _)
MapLookup_walk(m, encodedKey, entry) ==
    IF entry = 0 THEN 0
    ELSE IF Entry_compare(m.entries[entry], encodedKey) = 0 THEN entry
    ELSE MapLookup_walk(m, encodedKey, m.entries[entry].next)

\* A lookup that compares the key objects and not their encodings.
RECURSIVE MapLookup_walkByObject(_, _, _)
MapLookup_walkByObject(m, key, entry) ==
    IF entry = 0 THEN 0
    ELSE IF m.entries[entry].key = key THEN entry
    ELSE MapLookup_walkByObject(m, key, m.entries[entry].next)
MapLookup_byObject(m, key) == MapLookup_walkByObject(m, key, m.root)

MapLookup(m, key) == MapLookup_walk(m, encode(key), m.root)

\* CBOR.Map.get(key): [err, value]
MapGet(m, key) ==
    IF ~cborArguentCheck(key) THEN [err |-> "Argument is not a CBOR object", value |-> NotCBOR]
    ELSE IF MapLookup(m, key) = 0 THEN [err |-> "Missing key", value |-> NotCBOR]
    ELSE [err |-> "", value |-> m.entries[MapLookup(m, key)].value]

\* CBOR.Map.containsKey(key)
MapContainsKey(m, key) == MapLookup(m, key) # 0

\* A remove that unlinks the entry and leaves #numberOfEntries as it is.
RECURSIVE MapRemove_walkUncounted(_, _, _, _)
MapRemove_walkUncounted(m, encodedKey, entry, precedingEntry) ==
    IF entry = 0 THEN [err |-> "Missing key", map |-> m, value |-> NotCBOR]
    ELSE IF Entry_compare(m.entries[entry], encodedKey) = 0
    THEN [err |-> "",
          map |-> IF precedingEntry = 0
                  THEN [m EXCEPT !.root = m.entries[entry].next]
                  ELSE [m EXCEPT !.entries[precedingEntry].next = m.entries[entry].next],
          value |-> m.entries[entry].value]
    ELSE MapRemove_walkUncounted(m, encodedKey, m.entries[entry].next, entry)

\* The loop of CBOR.Map.remove
RECURSIVE MapRemove_walk(_, _, _, _)
MapRemove_walk(m, encodedKey, entry, precedingEntry) ==
    IF entry = 0 THEN [err |-> "Missing key", map |-> m, value |-> NotCBOR]
    ELSE IF Entry_compare(m.entries[entry], encodedKey) = 0
    THEN [err |-> "",
          map |-> IF precedingEntry = 0
                  THEN [m EXCEPT !.root = m.entries[entry].next,
                                 !.numberOfEntries = @ - 1]
                  ELSE [m EXCEPT !.entries[precedingEntry].next = m.entries[entry].next,
                                 !.numberOfEntries = @ - 1],
          value |-> m.entries[entry].value]
    ELSE MapRemove_walk(m, encodedKey, m.entries[entry].next, entry)

\* CBOR.Map.remove(key): [err, map, value]
MapRemove(m, key) ==
    IF ~cborArguentCheck(key)
    THEN [err |-> "Argument is not a CBOR object", map |-> m, value |-> NotCBOR]
    ELSE MapRemove_walk(m, encode(key), m.root, 0)

\* CBOR.Map.size()
MapSize(m) == m.numberOfEntries

(***************************************************************************)
(* The decoder.  A #_decoder object is the record d; a method returns the  *)
(* record [err, ..., d]: err = "" is a normal return, any other err is the  *)
(* Error thrown (it propagates through every caller up to CBOR.decode).     *)
(***************************************************************************)
\* new CBOR.#_decoder(cbor, sequenceFlag, acceptNonDeterministic, constrainedKeys)
Decoder(bytes, sequenceFlag, acceptNonDeterministic, constrainedKeys) ==
    [cbor |-> bytes, counter |-> 0, sequenceFlag |-> sequenceFlag,
     deterministicMode |-> ~acceptNonDeterministic, constrainedKeys |-> constrainedKeys,
     atFirstByte |-> FALSE]

Thrown(err, d) == [err |-> err, object |-> NotCBOR, d |-> d]
Returned(object, d) == [err |-> "", object |-> object, d |-> d]

\* readByte that hands out the null byte at the end of a sequence buffer
\* wherever in an item the read stands.
readByte_nullAnywhere(d) ==
    IF d.counter >= Len(d.cbor)
    THEN IF d.sequenceFlag
         THEN [err |-> "", byte |-> MT_NULL, d |-> d]
         ELSE [err |-> "Reading past end of buffer", byte |-> 0, d |-> d]
    ELSE [err |-> "", byte |-> d.cbor[d.counter + 1],
          d |-> [d EXCEPT !.atFirstByte = FALSE, !.counter = @ + 1]]

\* #_decoder.readByte: [err, byte, d]
readByte(d) ==
    IF d.counter >= Len(d.cbor)
    THEN IF d.sequenceFlag /\ d.atFirstByte
         THEN [err |-> "", byte |-> MT_NULL, d |-> d]
         ELSE [err |-> "Reading past end of buffer", byte |-> 0, d |-> d]
    ELSE [err |-> "", byte |-> d.cbor[d.counter + 1],
          d |-> [d EXCEPT !.atFirstByte = FALSE, !.counter = @ + 1]]

\* A readBytes that takes length bytes from the cursor on without readByte,
\* as cbor.subarray(counter, counter += length) does.
readBytes_unchecked(d, length) ==
    [err   |-> "",
     bytes |-> SubSeq(d.cbor, d.counter + 1, Len(d.cbor)),
     d     |-> [d EXCEPT !.atFirstByte = FALSE, !.counter = @ + ToInt(length)]]

\* #_decoder.readBytes(length): [err, bytes, d].  The loop calls readByte
\* length times: with length bytes left every call succeeds and the bytes are
\* the next length bytes of the buffer; with fewer left, the calls consume
\* what is left and the next readByte decides the outcome.
readBytes(d, length) ==
    IF NatCmp(length, NatOf(Len(d.cbor) - d.counter)) <= 0
    THEN [err   |-> "",
          bytes |-> SubSeq(d.cbor, d.counter + 1, d.counter + ToInt(length)),
          d     |-> IF length = <<>> THEN d
                    ELSE [d EXCEPT !.atFirstByte = FALSE, !.counter = @ + ToInt(length)]]
    ELSE Once(readByte(IF d.counter = Len(d.cbor) THEN d
                       ELSE [d EXCEPT !.atFirstByte = FALSE, !.counter = Len(d.cbor)]),
              LAMBDA r : [err |-> r.err, bytes |-> <<>>, d |-> r.d])

\* while (--q >= 0) { bigN <<= 8n; bigN += BigInt(this.readByte()); }: [err, bigN, d].
\* The q bytes read are appended to bigN as its low-order digits.
getObject_readN(d, q, bigN) ==
    Once(readBytes(d, NatOf(q)), LAMBDA r :
        [err |-> r.err, bigN |-> StripZeros(bigN \o r.bytes), d |-> r.d])

\* mask & bigN on BigInts
RECURSIVE NatAndRaw(_, _)
NatAndRaw(a, b) ==
    IF a = <<>> \/ b = <<>> THEN <<>>
    ELSE Append(NatAndRaw(NatShr8(a), NatShr8(b)), BitAnd(LowByte(a), LowByte(b)))

NatAnd(a, b) == StripZeros(NatAndRaw(a, b))

\* rangeLimitedBigInt with the limit one higher: 0x100000000 passes.
rangeLimitedBigInt_throwsAbove2To32(value) == NatCmp(value, <<1, 0, 0, 0, 0>>) > 0

\* #_decoder.rangeLimitedBigInt(value): TRUE when it throws
rangeLimitedBigInt_throws(value) == NatCmp(value, <<255, 255, 255, 255>>) > 0

\* The value of a bignum's byte string: byteArray.forEach(byte => ...)
bigValue(byteArray) == StripZeros(byteArray)

RECURSIVE getObject(_)
RECURSIVE getObject_array(_, _, _)
RECURSIVE getObject_map(_, _, _)
RECURSIVE getObject_bignum(_, _)

\* for (let q = ...; --q >= 0;) { cborArray.add(this.getObject()); }
getObject_array(d, q, cborArray) ==
    IF q = <<>> THEN Returned(cborArray, d)
    ELSE Once(getObject(d), LAMBDA r :
            IF r.err # "" THEN Thrown(r.err, r.d)
            ELSE getObject_array(r.d, NatDec(q),
                                 [cborArray EXCEPT !.elements = Append(@, r.object)]))

\* cborMap.set(this.getObject(), this.getObject()): [err, map, d]
getObject_mapSet(d, cborMap) ==
    Once(getObject(d), LAMBDA k :
        IF k.err # "" THEN [err |-> k.err, map |-> cborMap, d |-> k.d]
        ELSE Once(getObject(k.d), LAMBDA v :
                IF v.err # "" THEN [err |-> v.err, map |-> cborMap, d |-> v.d]
                ELSE Once(MapSet(cborMap, k.object, v.object), LAMBDA s :
                        [err |-> s.err, map |-> s.map, d |-> v.d])))

\* for (let q = ...; --q >= 0;) { cborMap.set(this.getObject(), this.getObject()); }
getObject_map(d, q, cborMap) ==
    IF q = <<>> THEN Returned([cborMap EXCEPT !.deterministicMode = FALSE], d)
    ELSE Once(getObject_mapSet(d, cborMap), LAMBDA s :
            IF s.err # "" THEN Thrown(s.err, s.d)
            ELSE getObject_map(s.d, NatDec(q), s.map))

\* The second half of #_decoder.getObject: N is decoded, switch on the major type.
getObject_major(d, tag, bigN) ==
    LET major == BitAnd(tag, 224) IN
    CASE major = MT_TAG ->
            \* "let tagData = getObject();" names no binding: a ReferenceError
            Thrown("ReferenceError: getObject is not defined", d)
      [] major = MT_UNSIGNED ->
            IF NatCmp(bigN, MAX_SAFE_INTEGER) > 0
            THEN Returned(CBOR_BigInt([neg |-> FALSE, mag |-> bigN]), d)
            ELSE Returned(CBOR_Int([neg |-> FALSE, mag |-> bigN]), d)
      [] major = MT_NEGATIVE ->
            IF NatCmp(NatInc(bigN), MAX_SAFE_INTEGER) > 0
            THEN Returned(CBOR_BigInt([neg |-> TRUE, mag |-> NatInc(bigN)]), d)
            ELSE Returned(CBOR_Int([neg |-> TRUE, mag |-> NatInc(bigN)]), d)
      [] major = MT_BYTES ->
            IF rangeLimitedBigInt_throws(bigN) THEN Thrown("Length limited to 0xffffffff", d)
            ELSE Once(readBytes(d, bigN), LAMBDA r :
                    IF r.err # "" THEN Thrown(r.err, r.d)
                    ELSE Returned(CBOR_Bytes(r.bytes), r.d))
      [] major = MT_STRING ->
            IF rangeLimitedBigInt_throws(bigN) THEN Thrown("Length limited to 0xffffffff", d)
            ELSE Once(readBytes(d, bigN), LAMBDA r :
                    IF r.err # "" THEN Thrown(r.err, r.d)
                    ELSE Once(TextDecoder_decode(r.bytes), LAMBDA t :
                            IF ~t.ok
                            THEN Thrown("TypeError: The encoded data was not valid", r.d)
                            ELSE Returned(CBOR_String(t.string), r.d)))
      [] major = MT_ARRAY ->
            IF rangeLimitedBigInt_throws(bigN) THEN Thrown("Length limited to 0xffffffff", d)
            ELSE getObject_array(d, bigN, CBOR_Array(<<>>))
      [] major = MT_MAP ->
            IF rangeLimitedBigInt_throws(bigN) THEN Thrown("Length limited to 0xffffffff", d)
            ELSE getObject_map(d, bigN,
                               [CBOR_Map EXCEPT !.deterministicMode = d.deterministicMode,
                                                !.constrainedKeys = d.constrainedKeys])
      [] OTHER -> Thrown("Unsupported tag", d)

\* The middle of #_decoder.getObject: N blended into the tag byte.
getObject_N(d, tag) ==
    LET n == BitAnd(tag, 31) IN
    IF n > 27 THEN Thrown("Unsupported tag", d)
    ELSE IF n > 23
    THEN LET q    == ShiftLeft(1, n - 24)
             mask == NatShl8(<<255, 255, 255, 255>>, ShiftRight(q, 1))
         IN  Once(getObject_readN(d, q, <<>>), LAMBDA r :
                IF r.err # "" THEN Thrown(r.err, r.d)
                ELSE IF (NatCmp(r.bigN, NatOf(24)) < 0 \/ NatAnd(mask, r.bigN) = <<>>)
                        /\ d.deterministicMode
                THEN Thrown("Non-deterministic N encoding", r.d)
                ELSE getObject_major(r.d, tag, r.bigN))
    ELSE getObject_major(d, tag, NatOf(n))

\* The bignum cases without the test of the byte string's length.
getObject_bignumAnyLength(d, tag) ==
    Once(getObject(d), LAMBDA r :
        IF r.err # "" THEN Thrown(r.err, r.d)
        ELSE IF r.object.kind # "Bytes"
        THEN Thrown("Invalid method call for object", r.d)
        ELSE LET byteArray == r.object.bytes IN
             IF (Len(byteArray) = 0 \/ byteArray[1] = 0) /\ d.deterministicMode
             THEN Thrown("Non-deterministic big integer encoding", r.d)
             ELSE IF tag = MT_BIG_NEGATIVE
             THEN Returned(CBOR_BigInt([neg |-> TRUE,
                                        mag |-> NatInc(bigValue(byteArray))]), r.d)
             ELSE Returned(CBOR_BigInt([neg |-> FALSE, mag |-> bigValue(byteArray)]), r.d))

\* The bignum cases of #_decoder.getObject: the byte string that follows the
\* tag 0xc2 or 0xc3 is the magnitude.
getObject_bignum(d, tag) ==
    Once(getObject(d), LAMBDA r :
        IF r.err # "" THEN Thrown(r.err, r.d)
        ELSE IF r.object.kind # "Bytes"
        THEN Thrown("Invalid method call for object", r.d)
        ELSE LET byteArray == r.object.bytes IN
             IF (Len(byteArray) = 0 \/ byteArray[1] = 0 \/ Len(byteArray) <= 8)
                /\ d.deterministicMode
             THEN Thrown("Non-deterministic big integer encoding", r.d)
             ELSE IF tag = MT_BIG_NEGATIVE
             THEN Returned(CBOR_BigInt([neg |-> TRUE,
                                        mag |-> NatInc(bigValue(byteArray))]), r.d)
             ELSE Returned(CBOR_BigInt([neg |-> FALSE, mag |-> bigValue(byteArray)]), r.d))

\* #_decoder.getObject: [err, object, d]
getObject(d0) ==
    Once(readByte(d0), LAMBDA b :
        IF b.err # "" THEN Thrown(b.err, b.d)
        ELSE IF b.byte = MT_BIG_NEGATIVE \/ b.byte = MT_BIG_UNSIGNED
        THEN getObject_bignum(b.d, b.byte)
        ELSE IF b.byte = MT_NULL THEN Returned(CBOR_Null, b.d)
        ELSE IF b.byte = MT_TRUE \/ b.byte = MT_FALSE
        THEN Returned(CBOR_Bool(b.byte = MT_TRUE), b.d)
        ELSE getObject_N(b.d, b.byte))

\* What decodeExtended returns at the end of a sequence: JavaScript's null.
JSnull == [kind |-> "null"]

\* CBOR.#getObject without the test for bytes left after the object.
CBOR_getObject_anyRest(decoder) ==
    Once(getObject([decoder EXCEPT !.atFirstByte = TRUE]), LAMBDA r :
        IF r.err # "" THEN r
        ELSE IF r.d.sequenceFlag /\ r.d.atFirstByte THEN Returned(JSnull, r.d)
        ELSE r)

\* CBOR.#getObject(decoder)
CBOR_getObject(decoder) ==
    Once(getObject([decoder EXCEPT !.atFirstByte = TRUE]), LAMBDA r :
        IF r.err # "" THEN r
        ELSE IF r.d.sequenceFlag
        THEN IF r.d.atFirstByte THEN Returned(JSnull, r.d) ELSE r
        ELSE IF r.d.counter < Len(r.d.cbor)
        THEN Thrown("Unexpected data encountered after CBOR object", r.d)
        ELSE r)

\* CBOR.decode(cbor)
decode(bytes) == CBOR_getObject(Decoder(bytes, FALSE, FALSE, FALSE))

\* CBOR.initExtended and CBOR.decodeExtended
initExtended(bytes, sequenceFlag, acceptNonDeterministic, constrainedKeys) ==
    Decoder(bytes, sequenceFlag, acceptNonDeterministic, constrainedKeys)

decodeExtended(decoder) == CBOR_getObject(decoder)

(***************************************************************************)
(* The integers the integer codecs are run on: around every power of 256   *)
(* up to MaxBytes bytes, with the edges 23/24 and 2^53 - 1 / 2^53.         *)
(***************************************************************************)
LeadBytes == {1, 23, 24, 31, 32, 255}
FillBytes == {0, 255}
RECURSIVE Fill(_, _)
Fill(f, k) == IF k = 0 THEN <<>> ELSE Append(Fill(f, k - 1), f)
BaseMags == {<<a>> \o Fill(f, k) : a \in LeadBytes, f \in FillBytes, k \in 0..(MaxBytes - 1)}
Mags == {<<>>} \cup BaseMags \cup {NatInc(x) : x \in BaseMags} \cup {NatDec(x) : x \in BaseMags}
SampleIntegers ==
    {[neg |-> FALSE, mag |-> m] : m \in Mags}
        \cup {[neg |-> TRUE, mag |-> m] : m \in Mags \ {<<>>}}
SafeNats == {m \in Mags : NatCmp(m, MAX_SAFE_INTEGER) <= 0}
MajorTypes == {MT_UNSIGNED, MT_NEGATIVE, MT_BYTES, MT_STRING, MT_ARRAY, MT_MAP, MT_TAG, 224}

(***************************************************************************)
(* SpecInt: a caller runs the header codec, or builds a CBOR.Int or a      *)
(* CBOR.BigInt and encodes it.                                             *)
(***************************************************************************)
IntInit ==
    /\ pc = "start"
    /\ obj = NotCBOR
    /\ cbor = <<>>
    /\ res = [op |-> "none", err |-> ""]
    /\ hist = {}

\* CBOR.#encodeTagAndN(majorType, n)
HeaderCall(majorType, n) ==
    /\ pc = "start"
    /\ pc' = "header"
    /\ cbor' = encodeTagAndN(majorType, n)
    /\ res' = [op |-> "encodeTagAndN", err |-> "", majorType |-> majorType, n |-> n]
    /\ UNCHANGED <<obj, hist>>

\* CBOR.Int(value): #intCheck throws outside the safe range
NewInt(value) ==
    /\ pc = "start"
    /\ IF intCheck(value)
       THEN /\ obj' = CBOR_Int(value)
            /\ pc' = "built"
            /\ res' = [op |-> "Int", err |-> ""]
       ELSE /\ obj' = obj
            /\ pc' = "threw"
            /\ res' = [op |-> "Int", err |-> "Argument is outside of Number.MAX_SAFE_INTEGER"]
    /\ UNCHANGED <<cbor, hist>>

\* CBOR.BigInt(value)
NewBigInt(value) ==
    /\ pc = "start"
    /\ obj' = CBOR_BigInt(value)
    /\ pc' = "built"
    /\ res' = [op |-> "BigInt", err |-> ""]
    /\ UNCHANGED <<cbor, hist>>

\* object.encode()
EncodeCall ==
    /\ pc = "built"
    /\ cbor' = encode(obj)
    /\ pc' = "encoded"
    /\ res' = [op |-> "encode", err |-> ""]
    /\ UNCHANGED <<obj, hist>>

IntNext ==
    \/ \E majorType \in MajorTypes, n \in SafeNats : HeaderCall(majorType, n)
    \/ \E value \in SampleIntegers : NewInt(value)
    \/ \E value \in SampleIntegers : NewBigInt(value)
    \/ EncodeCall

SpecInt == IntInit /\ [][IntNext]_vars

(***************************************************************************)
(* What RFC 8949 asks of a header: the argument in the header byte up to   *)
(* 23, else in the narrowest of 1, 2, 4, 8 bytes.  n is below 2^64.        *)
(***************************************************************************)
NativeWidth(n) ==
    CHOOSE w \in {1, 2, 4, 8} :
        /\ Len(n) <= w
        /\ \A u \in {1, 2, 4, 8} : Len(n) <= u => w <= u

WidthCode(w) == CASE w = 1 -> 24 [] w = 2 -> 25 [] w = 4 -> 26 [] w = 8 -> 27

NativeForm(majorType, n) ==
    IF NatCmp(n, <<23>>) <= 0
    THEN <<majorType + ToInt(n)>>
    ELSE <<majorType + WidthCode(NativeWidth(n))>> \o Zeros(NativeWidth(n) - Len(n)) \o n

\* C8: encodeTagAndN(majorType, n), 0 <= n <= 2^53 - 1, is the single byte
\* majorType | n when n <= 23, and otherwise majorType | 24..27 followed by n,
\* big-endian, in the narrowest of 1, 2, 4, 8 bytes that holds it.
C8_HeaderMinimal ==
    pc = "header" => cbor = NativeForm(res.majorType, res.n)

C8_Witness ==
    /\ pc = "header"
    /\ res.n = <<1, 0, 0>>
    /\ res.majorType = MT_ARRAY
    /\ cbor = <<154, 0, 1, 0, 0>>

TwoTo53 == <<32, 0, 0, 0, 0, 0, 0>>
TwoTo64 == <<1, 0, 0, 0, 0, 0, 0, 0, 0>>

\* C9 as the specification states it: the integer 2^53, given as CBOR.BigInt,
\* encodes via the bignum tag 0xc2 followed by a byte string.
C9_BignumAt2To53 ==
    (pc = "encoded" /\ obj = CBOR_BigInt([neg |-> FALSE, mag |-> TwoTo53]))
        => (cbor[1] = MT_BIG_UNSIGNED /\ cbor[2] \in 64..95)

\* C9, amended: the integer 2^53, given as CBOR.BigInt, encodes in the native
\* integer form, 0x1b followed by the 8-byte big-endian value; the bignum tag
\* 0xc2 followed by a byte string is first used at 2^64.
C9_NativeAt2To53 ==
    /\ (pc = "encoded" /\ obj = CBOR_BigInt([neg |-> FALSE, mag |-> TwoTo53]))
          => cbor = <<27, 0, 32, 0, 0, 0, 0, 0, 0>>
    /\ (pc = "encoded" /\ obj.kind = "BigInt" /\ ~obj.value.neg)
          => (cbor[1] = MT_BIG_UNSIGNED <=> NatCmp(obj.value.mag, TwoTo64) >= 0)

C9_Witness ==
    /\ pc = "encoded"
    /\ obj = CBOR_BigInt([neg |-> FALSE, mag |-> TwoTo53])
    /\ Len(cbor) = 9

\* The argument a CBOR integer carries: v itself, or -1 - v of a negative v.
ArgumentOf(v) == IF v.neg THEN NatDec(v.mag) ELSE v.mag

\* C10: CBOR.BigInt(v).encode() with m the argument of v (v, or -1 - v): below
\* 2^64 it is the native form of m under major type 0 or 1, the same bytes as
\* CBOR.Int(v).encode() whenever |v| <= 2^53 - 1; from 2^64 on it is 0xc2 or
\* 0xc3 followed by the byte string of m, big-endian without a leading zero.
C10_BigIntCanonical ==
    (pc = "encoded" /\ obj.kind = "BigInt") =>
        LET v == obj.value
            m == ArgumentOf(v)
        IN  /\ Len(m) <= 8 =>
                cbor = NativeForm(IF v.neg THEN MT_NEGATIVE ELSE MT_UNSIGNED, m)
            /\ NatCmp(v.mag, MAX_SAFE_INTEGER) <= 0 => cbor = IntEncode(v)
            /\ Len(m) > 8 =>
                /\ cbor = <<IF v.neg THEN MT_BIG_NEGATIVE ELSE MT_BIG_UNSIGNED>>
                              \o NativeForm(MT_BYTES, NatOf(Len(m))) \o m
                /\ m[1] # 0

C10_Witness ==
    /\ pc = "encoded"
    /\ obj = CBOR_BigInt([neg |-> TRUE, mag |-> NatInc(TwoTo64)])
    /\ cbor = <<195, 73, 1, 0, 0, 0, 0, 0, 0, 0, 0>>

(***************************************************************************)
(* SpecMap: a caller holds one CBOR.Map, new or returned by a decode, and   *)
(* calls set, remove and encode on it.  hist is the set of key/value pairs *)
(* the calls so far have put in and not taken out; res is the last call.   *)
(* MaxEntries bounds the Entry objects allocated in one run.               *)
(***************************************************************************)
MaxEntries == 3

MapKeys ==
    {CBOR_Int([neg |-> FALSE, mag |-> <<>>]),
     CBOR_Int([neg |-> FALSE, mag |-> <<1>>]),
     CBOR_BigInt([neg |-> FALSE, mag |-> <<1>>]),
     CBOR_String(<<97>>)}
MapValues == {CBOR_Null, CBOR_Bool(TRUE)}
Pair(key, value) == [key |-> key, value |-> value]

\* The CBOR a peer sends for a map of pairs in the given order.
RECURSIVE PairBytes(_)
PairBytes(pairs) ==
    IF pairs = <<>> THEN <<>>
    ELSE encode(pairs[1].key) \o encode(pairs[1].value) \o PairBytes(Tail(pairs))
MapBytes(pairs) == <<MT_MAP + Len(pairs)>> \o PairBytes(pairs)

ReceivedKeys == {k \in MapKeys : k.kind # "BigInt"}
ReceivedMaps ==
    {<<>>} \cup {<<Pair(k, CBOR_Null)>> : k \in ReceivedKeys}
           \cup {<<Pair(k1, CBOR_Null), Pair(k2, CBOR_Bool(TRUE))>> : k1, k2 \in ReceivedKeys}

MapInit ==
    /\ pc = "new"
    /\ obj = CBOR_Map
    /\ cbor = <<>>
    /\ res = [op |-> "Map", err |-> ""]
    /\ hist = {}

\* CBOR.decodeExtended(CBOR.initExtended(cbor, false, acceptNonDeterministic,
\* constrainedKeys)) of a received map, in place of new CBOR.Map()
MapDecoded(pairs, acceptNonDeterministic, constrainedKeys) ==
    /\ pc = "new"
    /\ Len(pairs) <= MaxEntries
    /\ \E r \in {decodeExtended(initExtended(MapBytes(pairs), FALSE,
                                              acceptNonDeterministic, constrainedKeys))} :
           /\ res' = [op |-> "decode", err |-> r.err]
           /\ IF r.err = ""
              THEN /\ obj' = r.object
                   /\ hist' = {pairs[i] : i \in 1..Len(pairs)}
                   /\ pc' = "live"
              ELSE /\ pc' = "threw"
                   /\ UNCHANGED <<obj, hist>>
    /\ cbor' = <<>>

\* map.set(key, value)
SetCall(key, value) ==
    /\ pc \in {"new", "live"}
    /\ Len(obj.entries) < MaxEntries
    /\ \E r \in {MapSet(obj, key, value)} :
           /\ obj' = r.map
           /\ res' = [op |-> "set", err |-> r.err, key |-> key, value |-> value]
           /\ hist' = IF r.err = "" THEN hist \cup {Pair(key, value)} ELSE hist
    /\ pc' = "live"
    /\ cbor' = <<>>

\* map.remove(key)
RemoveCall(key) ==
    /\ pc \in {"new", "live"}
    /\ \E r \in {MapRemove(obj, key)} :
           /\ obj' = r.map
           /\ res' = [op |-> "remove", err |-> r.err, key |-> key, value |-> r.value]
           /\ hist' = IF r.err = "" THEN {p \in hist : encode(p.key) # encode(key)} ELSE hist
    /\ pc' = "live"
    /\ cbor' = <<>>

\* map.get(key)
GetCall(key) ==
    /\ pc \in {"new", "live"}
    /\ \E r \in {MapGet(obj, key)} :
           res' = [op |-> "get", err |-> r.err, key |-> key, value |-> r.value]
    /\ pc' = "live"
    /\ cbor' = <<>>
    /\ UNCHANGED <<obj, hist>>

\* map.containsKey(key)
ContainsKeyCall(key) ==
    /\ pc \in {"new", "live"}
    /\ res' = [op |-> "containsKey", err |-> "", key |-> key, value |-> MapContainsKey(obj, key)]
    /\ pc' = "live"
    /\ cbor' = <<>>
    /\ UNCHANGED <<obj, hist>>

\* map.encode()
MapEncodeCall ==
    /\ pc \in {"new", "live"}
    /\ cbor' = encode(obj)
    /\ obj' = MapEncode_this(obj)
    /\ res' = [op |-> "encode", err |-> ""]
    /\ pc' = "live"
    /\ UNCHANGED hist

MapNext ==
    \/ \E pairs \in ReceivedMaps, acceptNonDeterministic \in BOOLEAN, constrainedKeys \in BOOLEAN :
          MapDecoded(pairs, acceptNonDeterministic, constrainedKeys)
    \/ \E key \in MapKeys \cup {NotCBOR}, value \in MapValues : SetCall(key, value)
    \/ \E key \in MapKeys : RemoveCall(key)
    \/ MapEncodeCall

SpecMap == MapInit /\ [][MapNext]_vars

\* A new CBOR.Map() under set, remove, get, containsKey and encode calls, with
\* two keys that encode alike (the Int 1 and the BigInt 1) and one that does
\* not.
MappingKeys == {k \in MapKeys : encode(k) # <<0>>}
MappingNext ==
    \/ \E key \in MappingKeys, value \in MapValues : SetCall(key, value)
    \/ \E key \in MappingKeys : RemoveCall(key)
    \/ \E key \in MappingKeys : GetCall(key)
    \/ \E key \in MappingKeys : ContainsKeyCall(key)
    \/ MapEncodeCall

SpecMapping == MapInit /\ [][MappingNext]_vars

\* Bytewise order of two byte strings: the first differing byte decides, and a
\* proper prefix comes first.
BytesLess(a, b) ==
    \E i \in 1..Len(b) :
        /\ \A j \in 1..(i - 1) : j <= Len(a) /\ a[j] = b[j]
        /\ i = Len(a) + 1 \/ (i <= Len(a) /\ a[i] < b[i])

\* The entries of a map from #root along next, at most fuel of them.
RECURSIVE Chain(_, _, _)
Chain(m, entry, fuel) ==
    IF entry = 0 \/ fuel = 0 THEN <<>>
    ELSE <<entry>> \o Chain(m, m.entries[entry].next, fuel - 1)

EntriesOf(m) == Chain(m, m.root, Len(m.entries) + 1)

\* C3: in every Map, new or returned by a strict or lenient decode, after any
\* set and remove calls, the entries along the linked list are strictly
\* ascending in the bytewise order of their keys' encodings (so the list ends
\* and no two entries have equal encoded keys).
C3_MapSorted ==
    obj.kind = "Map" =>
        \A i \in 1..(Len(EntriesOf(obj)) - 1) :
            BytesLess(encode(obj.entries[EntriesOf(obj)[i]].key),
                      encode(obj.entries[EntriesOf(obj)[i + 1]].key))

\* set has put the third entry between the two others.
C3_Witness ==
    /\ res.op = "set" /\ res.err = ""
    /\ obj.numberOfEntries = 3
    /\ EntriesOf(obj) = <<1, 3, 2>>

\* The one deterministic encoding of a map holding the pairs S.
RECURSIVE SortedPairBytes(_)
SortedPairBytes(S) ==
    IF S = {} THEN <<>>
    ELSE LET p == CHOOSE x \in S :
                      \A y \in S \ {x} : BytesLess(encode(x.key), encode(y.key))
         IN  encode(p.key) \o encode(p.value) \o SortedPairBytes(S \ {p})

CanonicalMap(S) == NativeForm(MT_MAP, NatOf(Cardinality(S))) \o SortedPairBytes(S)

\* C4: encode() of a map is decided by the set of pairs it holds, whatever the
\* order of the set calls that put them in: it is the map header followed by
\* the pairs in ascending bytewise order of the encoded keys; encode() leaves
\* the map as it was, so a repeated call returns the same bytes.
C4_OrderIndependent ==
    res.op = "encode" => cbor = CanonicalMap(hist)

\* encode() of three pairs that were set in descending key order.
C4_Witness ==
    /\ res.op = "encode"
    /\ Cardinality(hist) = 3
    /\ EntriesOf(obj) = <<3, 2, 1>>

HasKey(m, key) ==
    \E i \in 1..Len(EntriesOf(m)) : encode(m.entries[EntriesOf(m)[i]].key) = encode(key)

\* C5 as the specification states it: set with a key whose encoding equals
\* that of an entry of the map throws a Duplicate error and leaves the map as
\* it was.
C5_DuplicateThrows ==
    [][(res'.op = "set" /\ cborArguentCheck(res'.key) /\ HasKey(obj, res'.key))
          => (res'.err = "Duplicate" /\ obj' = obj)]_vars

\* C5, amended: set with a key whose encoding equals that of an entry of the
\* map throws and leaves the map (entries, order, size) as it was; the error is
\* Duplicate, except on a map decoded with the constrained-keys option when the
\* key is neither an Int nor a String, where it is the Constrained key error.
C5_DuplicateOrConstrained ==
    [][(res'.op = "set" /\ cborArguentCheck(res'.key) /\ HasKey(obj, res'.key))
          => /\ obj' = obj
             /\ hist' = hist
             /\ res'.err = IF obj.constrainedKeys /\ res'.key.kind \notin {"Int", "String"}
                           THEN "Constrained key option disallows"
                           ELSE "Duplicate"]_vars

\* set(CBOR.BigInt(1n)) on a map that holds the key CBOR.Int(1) and another.
C5_Witness ==
    /\ res.op = "set" /\ res.err = "Duplicate"
    /\ res.key.kind = "BigInt"
    /\ obj.numberOfEntries = 2
    /\ \E i \in 1..2 : obj.entries[i].key.kind = "Int" /\ obj.entries[i].encodedKey = <<1>>

(***************************************************************************)
(* SpecRoundTrip: a caller constructs a value, encodes it and hands the    *)
(* bytes to CBOR.decode.                                                   *)
(***************************************************************************)
Nat0 == [neg |-> FALSE, mag |-> <<>>]

FloatSamples ==
    {<<0, 0, 0, 0, 0, 0, 0, 0>>, <<128, 0, 0, 0, 0, 0, 0, 0>>,
     <<63, 240, 0, 0, 0, 0, 0, 0>>, <<64, 239, 252, 0, 0, 0, 0, 0>>,
     <<62, 112, 0, 0, 0, 0, 0, 0>>, <<71, 239, 255, 255, 224, 0, 0, 0>>,
     <<63, 185, 153, 153, 153, 153, 153, 154>>, f64NaN,
     <<127, 240, 0, 0, 0, 0, 0, 0>>, <<255, 240, 0, 0, 0, 0, 0, 0>>}
StringSamples == {<<>>, <<97>>, <<233>>, <<8364, 97>>, <<128512>>, <<65279, 97>>}
BytesSamples == {<<>>, <<0>>, <<1, 2, 3>>}

Scalars ==
    {CBOR_Int(v) : v \in {i \in SampleIntegers : intCheck(i)}}
        \cup {CBOR_BigInt(v) : v \in SampleIntegers}
        \cup {CBOR_Float(u8) : u8 \in FloatSamples}
        \cup {CBOR_String(string) : string \in StringSamples}
        \cup {CBOR_Bytes(bytes) : bytes \in BytesSamples}
        \cup {CBOR_Bool(TRUE), CBOR_Bool(FALSE), CBOR_Null}

Elements == {CBOR_Int(Nat0), CBOR_BigInt([neg |-> TRUE, mag |-> TwoTo64]), CBOR_String(<<97>>),
             CBOR_Null, CBOR_Array(<<>>)}

\* new CBOR.Map().set(k1, v1).set(k2, v2)...
RECURSIVE MapOf(_)
MapOf(pairs) ==
    IF pairs = <<>> THEN CBOR_Map
    ELSE MapSet(MapOf(SubSeq(pairs, 1, Len(pairs) - 1)),
                pairs[Len(pairs)].key, pairs[Len(pairs)].value).map

Containers ==
    {CBOR_Array(<<>>)}
        \cup {CBOR_Array(<<e>>) : e \in Elements}
        \cup {CBOR_Array(<<e1, e2>>) : e1, e2 \in Elements}
        \cup {MapOf(<<>>)}
        \cup {MapOf(<<Pair(k, e)>>) : k \in MapKeys, e \in Elements}
        \cup {MapOf(<<Pair(k1, CBOR_Null), Pair(k2, e)>>) : k1, k2 \in MapKeys, e \in Elements}
        \cup {CBOR_Tag(n, e) : n \in {<<>>, <<24>>, <<1, 0>>}, e \in Elements}

Values == Scalars \cup Containers

RoundTripInit ==
    /\ pc = "start"
    /\ obj = NotCBOR
    /\ cbor = <<>>
    /\ res = [op |-> "none", err |-> ""]
    /\ hist = {}

\* A constructor call; CBOR.Float throws on a value its checks reject.
Construct(v) ==
    /\ pc = "start"
    /\ IF v.kind = "Float" /\ v.err # ""
       THEN /\ pc' = "threw"
            /\ obj' = obj
            /\ res' = [op |-> "new", err |-> v.err]
       ELSE /\ pc' = "built"
            /\ obj' = v
            /\ res' = [op |-> "new", err |-> ""]
    /\ UNCHANGED <<cbor, hist>>

\* cbor = v.encode()
EncodeValue ==
    /\ pc = "built"
    /\ cbor' = encode(obj)
    /\ pc' = "encoded"
    /\ res' = [op |-> "encode", err |-> ""]
    /\ UNCHANGED <<obj, hist>>

\* CBOR.decode(cbor); hist keeps the value that was encoded
DecodeEncoded ==
    /\ pc = "encoded"
    /\ \E r \in {decode(cbor)} :
           /\ res' = [op |-> "decode", err |-> r.err]
           /\ obj' = r.object
    /\ hist' = {obj}
    /\ pc' = "decoded"
    /\ UNCHANGED cbor

RoundTripNext ==
    \/ \E v \in Values : Construct(v)
    \/ EncodeValue
    \/ DecodeEncoded

SpecRoundTrip == RoundTripInit /\ [][RoundTripNext]_vars

\* C1: for every constructible value v, strict CBOR.decode(v.encode())
\* returns a value whose encode() is the same bytes as v.encode().
C1_RoundTrip ==
    pc = "decoded" => (res.err = "" /\ encode(obj) = cbor)

\* The part of C1 the decoder does honour: every kind but Float and Tag, and
\* no String that starts with U+FEFF.
RoundTripsHere(v) ==
    /\ v.kind \notin {"Float", "Tag"}
    /\ v.kind = "String" => (v.string = <<>> \/ v.string[1] # 65279)

\* C1 kept to those values: strict CBOR.decode(v.encode()) returns a value whose
\* encode() is the same bytes as v.encode().
C1_RoundTripOfTheRest ==
    (pc = "decoded" /\ \A v \in hist : RoundTripsHere(v)) =>
        (res.err = "" /\ encode(obj) = cbor)

(***************************************************************************)
(* SpecDecode: a peer sends bytes; the receiver decodes them with          *)
(* CBOR.decode (strict) or with acceptNonDeterministic set (lenient).      *)
(* hist records how the peer formed the bytes.                             *)
(***************************************************************************)
MaxLen == 3

DecodeAlphabet == {0, 1, 23, 24, 32, 65, 97, 129, 161, 194, 246}

RECURSIVE SeqsOfLen(_, _)
SeqsOfLen(S, n) ==
    IF n = 0 THEN {<<>>}
    ELSE {Append(t, x) : t \in SeqsOfLen(S, n - 1), x \in S}

\* Every byte string of 1..MaxLen bytes over the alphabet.
RawInputs ==
    {[bytes |-> b, how |-> [family |-> "raw"]] :
        b \in UNION {SeqsOfLen(DecodeAlphabet, n) : n \in 1..MaxLen}}

\* The vectors of test/keyconstraints.js, and a text string that starts with
\* the bytes EF BB BF.
TestVectors ==
    {<<25, 0, 255>>, <<24, 23>>,
     <<162, 2, 99, 116, 119, 111, 1, 99, 111, 110, 101>>,
     <<251, 127, 248, 0, 0, 0, 0, 0, 0>>, <<251, 63, 240, 0, 0, 0, 0, 0, 0>>,
     <<249, 126, 1>>, <<194, 64>>, <<250, 127, 127, 255, 255>>}
BomText == <<99, 239, 187, 191>>
VectorInputs ==
    {[bytes |-> b, how |-> [family |-> "vector"]] : b \in TestVectors \cup {BomText}}

\* Maps of two or three pairs whose keys come in any order, with repeats.
SentKeys == {<<0>>, <<1>>, <<24, 24>>, <<32>>, <<96>>, <<97, 97>>}
RECURSIVE SentPairs(_)
SentPairs(keys) ==
    IF keys = <<>> THEN <<>> ELSE Head(keys) \o <<MT_NULL>> \o SentPairs(Tail(keys))
MapInputs ==
    {[bytes |-> <<MT_MAP + Len(keys)>> \o SentPairs(keys),
      how   |-> [family |-> "map", keys |-> keys]] :
        keys \in SeqsOfLen(SentKeys, 2) \cup SeqsOfLen(SentKeys, 3)}

\* Items whose header carries its argument in a 1, 2, 4 or 8-byte field.
ArgumentFields(w) ==
    {Zeros(w - 1) \o <<x>> : x \in {0, 1, 23, 24, 255}}
        \cup IF w = 1 THEN {}
             ELSE {<<1>> \o Zeros(w - 1), Fill(255, w),
                   Zeros(w \div 2) \o Fill(255, w \div 2),
                   Zeros(w \div 2 - 1) \o <<1>> \o Zeros(w \div 2)}

\* What follows the header for the item to be whole: count bytes, characters,
\* elements or pairs, or the tagged item.
RECURSIVE Repeat(_, _)
Repeat(s, k) ==
    IF k = 0 THEN <<>>
    ELSE Repeat(s, k \div 2) \o Repeat(s, k \div 2) \o (IF k % 2 = 1 THEN s ELSE <<>>)
RECURSIVE CountedPairs(_)
CountedPairs(k) ==
    IF k = 0 THEN <<>>
    ELSE CountedPairs(k - 1) \o NativeForm(MT_UNSIGNED, NatOf(k - 1)) \o <<MT_NULL>>
Content(major, count) ==
    CASE major = MT_BYTES  -> Repeat(<<0>>, count)
      [] major = MT_STRING -> Repeat(<<97>>, count)
      [] major = MT_ARRAY  -> Repeat(<<0>>, count)
      [] major = MT_MAP    -> CountedPairs(count)
      [] major = MT_TAG    -> <<0>>
      [] OTHER             -> <<>>
\* The inputs that carry their content: every scalar, the byte and text
\* strings of at most 24 bytes, the arrays and maps of at most MaxEntries
\* items; the others end after the header.
Whole(major, field) ==
    \/ major \in {MT_UNSIGNED, MT_NEGATIVE, MT_TAG, 224}
    \/ major \in {MT_BYTES, MT_STRING} /\ NatCmp(StripZeros(field), <<24>>) <= 0
    \/ major \in {MT_ARRAY, MT_MAP} /\ NatCmp(StripZeros(field), NatOf(MaxEntries)) <= 0
HeaderInputs ==
    {[bytes |-> <<h.major + 24 + h.code>> \o h.field
                   \o IF Whole(h.major, h.field)
                      THEN Content(h.major, ToInt(StripZeros(h.field))) ELSE <<>>,
      how   |-> [family |-> "header", major |-> h.major, field |-> h.field]] :
        h \in UNION {[major : MajorTypes, code : {c}, field : ArgumentFields(ShiftLeft(1, c))] :
                        c \in 0..3}}

\* Bignums: the tag 0xc2 or 0xc3 followed by a byte string, in its shortest
\* header, of 0 to MaxBytes + 1 bytes.
BignumPayloads ==
    {<<>>} \cup {<<a>> \o Fill(f, k) : a \in {0, 1, 255}, f \in FillBytes, k \in 0..MaxBytes}
BignumInputs ==
    {[bytes |-> <<tag>> \o BytesEncode(payload),
      how   |-> [family |-> "bignum", tag |-> tag, payload |-> payload]] :
        tag \in {MT_BIG_UNSIGNED, MT_BIG_NEGATIVE}, payload \in BignumPayloads}

\* Integers in the native form: major type 0 or 1 over an argument n of up to
\* 8 bytes, in its shortest header.
NativeArguments == {n \in Mags : Len(n) <= 8}
IntegerInputs ==
    {[bytes |-> NativeForm(major, n),
      how   |-> [family |-> "integer", major |-> major, n |-> n]] :
        major \in {MT_UNSIGNED, MT_NEGATIVE}, n \in NativeArguments}

\* Byte strings, text strings, arrays and maps whose header declares, in an
\* 8-byte field, a length or count around 0xffffffff, followed by a few bytes
\* of content.
DeclaredLengths ==
    {Zeros(4) \o Fill(255, 4), Zeros(3) \o <<1>> \o Zeros(4), Zeros(3) \o <<1, 0, 0, 0, 1>>,
     <<1>> \o Zeros(7), Fill(255, 8)}
FollowingBytes == {<<>>, <<0>>, <<97, 97>>, <<0, MT_NULL, 1>>}
LengthInputs ==
    {[bytes |-> <<major + 27>> \o field \o content,
      how   |-> [family |-> "length", major |-> major, field |-> field, content |-> content]] :
        major \in {MT_BYTES, MT_STRING, MT_ARRAY, MT_MAP}, field \in DeclaredLengths,
        content \in FollowingBytes}

\* The integer 0 inside arrays of one element, or inside maps of one pair with
\* the key 0, nested 1 to MaxNesting deep.
MaxNesting == 3
NestedInputs ==
    {[bytes |-> Repeat(IF major = MT_ARRAY THEN <<MT_ARRAY + 1>> ELSE <<MT_MAP + 1, 0>>, depth)
                   \o <<0>>,
      how   |-> [family |-> "nested", major |-> major, depth |-> depth]] :
        major \in {MT_ARRAY, MT_MAP}, depth \in 1..MaxNesting}

\* The encodings of maps built with set, as oneTurn of test/keyconstraints.js
\* sends them: keys of every kind, alone, in pairs, and Int and String keys in
\* threes; a map inside an array and a map as the value of a map.
KeySamples ==
    {CBOR_Int(Nat0), CBOR_Int([neg |-> FALSE, mag |-> <<1>>]),
     CBOR_Int([neg |-> TRUE, mag |-> <<1>>]), CBOR_String(<<>>), CBOR_String(<<109, 105, 120>>),
     CBOR_BigInt([neg |-> FALSE, mag |-> TwoTo64]), CBOR_Bytes(<<>>), CBOR_Bool(TRUE), CBOR_Null,
     CBOR_Array(<<>>), CBOR_Map, CBOR_Float(<<63, 240, 0, 0, 0, 0, 0, 0>>),
     CBOR_Tag(<<>>, CBOR_Int(Nat0))}
PlainKeys == {k \in KeySamples : k.kind \in {"Int", "String"}}
KeyedMaps ==
    {MapOf(<<Pair(k, CBOR_String(<<49>>))>>) : k \in KeySamples}
        \cup {MapOf(<<Pair(k1, CBOR_Null), Pair(k2, CBOR_String(<<49>>))>>) :
                  k1, k2 \in KeySamples}
        \cup {MapOf(<<Pair(k1, CBOR_Null), Pair(k2, CBOR_Null), Pair(k3, CBOR_Null)>>) :
                  k1, k2, k3 \in PlainKeys}
InnerMaps == {MapOf(<<Pair(k, CBOR_Null)>>) : k \in {CBOR_Int(Nat0), CBOR_Bool(TRUE)}}
ConstrainedInputs ==
    {[bytes |-> encode(o), how |-> [family |-> "constrained", object |-> o]] :
        o \in KeyedMaps
                 \cup {CBOR_Array(<<m>>) : m \in InnerMaps}
                 \cup {MapOf(<<Pair(k, m)>>) : k \in PlainKeys, m \in InnerMaps}}

DecodeInputs ==
    RawInputs \cup VectorInputs \cup MapInputs \cup HeaderInputs \cup BignumInputs
        \cup IntegerInputs \cup LengthInputs \cup NestedInputs \cup ConstrainedInputs

DecodeInit ==
    /\ pc = "idle"
    /\ obj = NotCBOR
    /\ cbor = <<>>
    /\ res = [op |-> "none", err |-> ""]
    /\ hist = [family |-> "none"]

Receive(input) ==
    /\ pc = "idle"
    /\ cbor' = input.bytes
    /\ hist' = input.how
    /\ pc' = "received"
    /\ UNCHANGED <<obj, res>>

\* CBOR.decode(cbor)
DecodeStrict ==
    /\ pc = "received"
    /\ \E r \in {decode(cbor)} :
           /\ res' = [op |-> "decode", err |-> r.err, counter |-> r.d.counter]
           /\ obj' = r.object
    /\ pc' = "decoded"
    /\ UNCHANGED <<cbor, hist>>

\* CBOR.decodeExtended(CBOR.initExtended(cbor, false, true, false))
DecodeLenient ==
    /\ pc = "received"
    /\ \E r \in {decodeExtended(initExtended(cbor, FALSE, TRUE, FALSE))} :
           /\ res' = [op |-> "decodeExtended", err |-> r.err, counter |-> r.d.counter]
           /\ obj' = r.object
    /\ pc' = "decoded"
    /\ UNCHANGED <<cbor, hist>>

\* CBOR.decodeExtended(CBOR.initExtended(cbor, false, false, true))
DecodeConstrained ==
    /\ pc = "received"
    /\ \E r \in {decodeExtended(initExtended(cbor, FALSE, FALSE, TRUE))} :
           /\ res' = [op |-> "decodeConstrained", err |-> r.err, counter |-> r.d.counter]
           /\ obj' = r.object
    /\ pc' = "decoded"
    /\ UNCHANGED <<cbor, hist>>

\* object.getInt() on the object a decode returned
GetIntCall ==
    /\ pc = "decoded" /\ res.err = ""
    /\ \E r \in {getInt(obj)} : res' = [op |-> "getInt", err |-> r.err, value |-> r.value]
    /\ pc' = "got"
    /\ UNCHANGED <<obj, cbor, hist>>

\* object.getBigInt() on the object a decode returned
GetBigIntCall ==
    /\ pc = "decoded" /\ res.err = ""
    /\ \E r \in {getBigInt(obj)} : res' = [op |-> "getBigInt", err |-> r.err, value |-> r.value]
    /\ pc' = "got"
    /\ UNCHANGED <<obj, cbor, hist>>

DecodeNext ==
    \/ \E input \in DecodeInputs : Receive(input)
    \/ DecodeStrict
    \/ DecodeLenient
    \/ DecodeConstrained
    \/ GetIntCall
    \/ GetBigIntCall

SpecDecode == DecodeInit /\ [][DecodeNext]_vars

\* C2: whenever strict CBOR.decode(b) returns a value, that value's encode()
\* is b.
C2_StrictCanonical ==
    (pc = "decoded" /\ res.op = "decode" /\ res.err = "") => encode(obj) = cbor

\* The part of C2 the decoder does honour: inputs that hold no text string
\* starting with the bytes EF BB BF.
C2_StrictCanonicalWithoutBom ==
    (pc = "decoded" /\ res.op = "decode" /\ res.err = "" /\ cbor # BomText)
        => encode(obj) = cbor

\* The first key of a sent map that does not come after the key before it.
FirstMisplaced(keys) ==
    CHOOSE i \in 2..Len(keys) :
        /\ ~BytesLess(keys[i - 1], keys[i])
        /\ \A j \in 2..(i - 1) : BytesLess(keys[j - 1], keys[j])

Ascending(keys) == \A i \in 2..Len(keys) : BytesLess(keys[i - 1], keys[i])

\* C6: strict decode of a map takes each key after the first only if it is
\* bytewise greater than the key decoded before it: at the first key that is
\* equal to its predecessor the decode throws Duplicate, at the first that is
\* smaller it throws Non-deterministic order, and no map is returned; a map
\* whose keys all ascend is returned with its entries in the order sent.
C6_AppendMode ==
    (pc = "decoded" /\ res.op = "decode" /\ hist.family = "map") =>
        IF Ascending(hist.keys)
        THEN /\ res.err = ""
             /\ obj.kind = "Map"
             /\ Len(EntriesOf(obj)) = Len(hist.keys)
             /\ \A i \in 1..Len(hist.keys) :
                    obj.entries[EntriesOf(obj)[i]].encodedKey = hist.keys[i]
        ELSE /\ obj = NotCBOR
             /\ res.err = IF hist.keys[FirstMisplaced(hist.keys)]
                                 = hist.keys[FirstMisplaced(hist.keys) - 1]
                          THEN "Duplicate"
                          ELSE "Non-deterministic order"

\* The third key of a map is smaller than the second.
C6_Witness ==
    /\ pc = "decoded" /\ res.op = "decode"
    /\ hist.family = "map"
    /\ hist.keys = <<<<0>>, <<97, 97>>, <<24, 24>>>>
    /\ res.err = "Non-deterministic order"

\* The argument of a header is representable in a shorter form: at most 23 in
\* the 1-byte field, or the upper half of a 2, 4 or 8-byte field all zero.
Shorter(field) ==
    IF Len(field) = 1 THEN field[1] <= 23
    ELSE \A i \in 1..(Len(field) \div 2) : field[i] = 0

\* C7, for the major types 0 to 6 (integers, strings, arrays, maps, tags): an
\* item whose header carries its argument in a 1, 2, 4 or 8-byte field fails
\* strict decode with the Non-deterministic encoding error exactly when the
\* argument is representable in a shorter form, and such an item is accepted
\* by the lenient decode, as the value its shortest form encodes.
C7_NonMinimalArgument ==
    (pc = "decoded" /\ hist.family = "header" /\ hist.major # 224) =>
        /\ res.op = "decode" =>
              (res.err = "Non-deterministic N encoding" <=> Shorter(hist.field))
        /\ (res.op = "decodeExtended" /\ Shorter(hist.field) /\ Whole(hist.major, hist.field)) =>
              /\ res.err = ""
              /\ encode(obj) = NativeForm(hist.major, StripZeros(hist.field))
                                  \o Content(hist.major, ToInt(StripZeros(hist.field)))

\* C7 without the tags: major types 0 to 5.
C7_NonMinimalArgumentOfData ==
    (pc = "decoded" /\ hist.family = "header" /\ hist.major \notin {MT_TAG, 224}) =>
        /\ res.op = "decode" =>
              (res.err = "Non-deterministic N encoding" <=> Shorter(hist.field))
        /\ (res.op = "decodeExtended" /\ Shorter(hist.field) /\ Whole(hist.major, hist.field)) =>
              /\ res.err = ""
              /\ encode(obj) = NativeForm(hist.major, StripZeros(hist.field))
                                  \o Content(hist.major, ToInt(StripZeros(hist.field)))

\* The strict half of C7 for every major type, 7 included.
C7_StrictHalf ==
    (pc = "decoded" /\ hist.family = "header" /\ res.op = "decode") =>
        (res.err = "Non-deterministic N encoding" <=> Shorter(hist.field))

\* C11: strict decode of the tag 0xc2 or 0xc3 over a byte string fails with the
\* Non-deterministic big integer error whenever the byte string is empty,
\* begins with a zero byte or is 8 bytes or shorter; otherwise it returns the
\* CBOR.BigInt m (0xc2) or -1 - m (0xc3), m the big-endian value of the bytes.
C11_BignumValidation ==
    (pc = "decoded" /\ res.op = "decode" /\ hist.family = "bignum") =>
        IF hist.payload = <<>> \/ hist.payload[1] = 0 \/ Len(hist.payload) <= 8
        THEN res.err = "Non-deterministic big integer encoding" /\ obj = NotCBOR
        ELSE /\ res.err = ""
             /\ obj = CBOR_BigInt([neg |-> hist.tag = MT_BIG_NEGATIVE,
                                   mag |-> IF hist.tag = MT_BIG_NEGATIVE
                                           THEN NatInc(hist.payload) ELSE hist.payload])

\* c3 49 ff 00 .. 00: nine bytes, decoded as -1 - 255 * 2^64.
C11_Witness ==
    /\ pc = "decoded" /\ res.op = "decode" /\ res.err = ""
    /\ hist.family = "bignum" /\ hist.tag = MT_BIG_NEGATIVE
    /\ hist.payload = <<255, 0, 0, 0, 0, 0, 0, 0, 0>>
    /\ obj = CBOR_BigInt([neg |-> TRUE, mag |-> <<255, 0, 0, 0, 0, 0, 0, 0, 1>>])

\* The integer a native-form item carries: n under major type 0, -1 - n under 1.
Carried(major, n) == [neg |-> major = MT_NEGATIVE, mag |-> IF major = MT_NEGATIVE THEN NatInc(n) ELSE n]

\* C12: decode of an integer v in the native form returns a CBOR.Int holding v
\* when -(2^53 - 1) <= v <= 2^53 - 1 and a CBOR.BigInt holding v otherwise;
\* getInt() returns v on the Int and throws, naming getBigInt(), on the BigInt;
\* getBigInt() returns v on both.
C12_IntegerPromotion ==
    hist.family = "integer" =>
        LET v == Carried(hist.major, hist.n) IN
        /\ pc = "decoded" =>
              /\ res.err = ""
              /\ obj = IF NatCmp(v.mag, MAX_SAFE_INTEGER) <= 0 THEN CBOR_Int(v) ELSE CBOR_BigInt(v)
        /\ (pc = "got" /\ res.op = "getInt") =>
              IF NatCmp(v.mag, MAX_SAFE_INTEGER) <= 0
              THEN res.err = "" /\ res.value = v
              ELSE res.err = "Integer is outside of Number.MAX_SAFE_INTEGER, use getBigInt()"
        /\ (pc = "got" /\ res.op = "getBigInt") => (res.err = "" /\ res.value = v)

\* 3b 00 1f ff ff ff ff ff ff: -2^53, one past the safe range; getInt() threw.
C12_Witness ==
    /\ pc = "got" /\ res.op = "getInt" /\ res.err # ""
    /\ hist.family = "integer" /\ hist.major = MT_NEGATIVE
    /\ hist.n = MAX_SAFE_INTEGER
    /\ obj = CBOR_BigInt([neg |-> TRUE, mag |-> TwoTo53])

(***************************************************************************)
(* SpecFloat: a caller builds a CBOR.Float from a JavaScript number and    *)
(* encodes it.  The numbers are every combination of a sign, an exponent   *)
(* at and around the limits of binary16 and binary32, and a significand    *)
(* with bits at and around the last place of binary16 and binary32; the    *)
(* values of test/float.js; NaN, the infinities and the zeros.             *)
(***************************************************************************)
FloatExponents ==
    {0, 1, 873, 874, 875, 885, 896, 897, 898, 998, 999, 1000, 1008, 1009, 1010,
     1022, 1023, 1024, 1038, 1039, 1150, 1151, 2046}
FloatHighBits == {0, 1, 4096, 8192, 2097152, 4194304, 4202496, 6291456, 8380416, 8388607}
FloatLowBits == {0, 1, 268435456}
FloatGrid ==
    {f64Of(sign, exp, hi, lo) :
        sign \in {0, 1}, exp \in FloatExponents, hi \in FloatHighBits, lo \in FloatLowBits}
FloatVectors ==
    {<<63, 16, 2, 0, 0, 0, 0, 0>>, <<64, 37, 30, 184, 32, 0, 0, 0>>,
     <<64, 239, 248, 0, 0, 0, 0, 0>>, <<64, 239, 248, 0, 32, 0, 0, 0>>,
     <<64, 239, 251, 224, 0, 0, 0, 0>>, <<64, 239, 252, 0, 0, 0, 0, 0>>,
     <<64, 239, 252, 0, 32, 0, 0, 0>>, <<64, 239, 252, 16, 0, 0, 0, 0>>,
     <<64, 239, 252, 32, 0, 0, 0, 0>>, <<64, 255, 252, 0, 0, 0, 0, 0>>,
     <<190, 112, 0, 0, 0, 0, 0, 0>>, <<190, 112, 0, 0, 32, 0, 0, 0>>,
     <<190, 112, 2, 0, 0, 0, 0, 0>>, <<190, 112, 4, 0, 0, 0, 0, 0>>,
     <<190, 120, 0, 0, 0, 0, 0, 0>>, <<191, 15, 248, 0, 0, 0, 0, 0>>,
     <<191, 15, 248, 0, 0, 0, 0, 12>>, <<191, 15, 248, 0, 0, 0, 0, 1>>,
     <<63, 16, 0, 0, 0, 0, 0, 0>>, <<63, 16, 0, 0, 0, 0, 16, 0>>,
     <<54, 160, 0, 0, 0, 0, 0, 0>>, <<63, 16, 4, 0, 0, 0, 0, 0>>,
     <<71, 239, 255, 255, 224, 0, 0, 0>>}
FloatSpecials ==
    {f64NaN, <<127, 240, 0, 0, 0, 0, 0, 1>>, <<255, 248, 0, 0, 0, 0, 0, 0>>,
     <<127, 255, 255, 255, 255, 255, 255, 255>>,
     <<127, 240, 0, 0, 0, 0, 0, 0>>, <<255, 240, 0, 0, 0, 0, 0, 0>>,
     <<0, 0, 0, 0, 0, 0, 0, 0>>, <<128, 0, 0, 0, 0, 0, 0, 0>>}
FloatInputs == FloatGrid \cup FloatVectors \cup FloatSpecials

FloatInit ==
    /\ pc = "start"
    /\ obj = NotCBOR
    /\ cbor = <<>>
    /\ res = [op |-> "none", err |-> ""]
    /\ hist = {}

\* CBOR.Float(value): the constructor throws on a value its checks reject
NewFloat(value) ==
    /\ pc = "start"
    /\ \E o \in {CBOR_Float(value)} :
           IF o.err # ""
           THEN /\ pc' = "threw"
                /\ obj' = obj
                /\ res' = [op |-> "Float", err |-> o.err, value |-> value]
           ELSE /\ pc' = "built"
                /\ obj' = o
                /\ res' = [op |-> "Float", err |-> "", value |-> value]
    /\ UNCHANGED <<cbor, hist>>

\* float.encode()
FloatEncodeCall ==
    /\ pc = "built"
    /\ cbor' = encode(obj)
    /\ pc' = "encoded"
    /\ res' = [op |-> "encode", err |-> "", value |-> res.value]
    /\ UNCHANGED <<obj, hist>>

FloatNext ==
    \/ \E value \in FloatInputs : NewFloat(value)
    \/ FloatEncodeCall

SpecFloat == FloatInit /\ [][FloatNext]_vars

(***************************************************************************)
(* IEEE 754 on the bits of a finite non-zero double x = 1.f * 2^E: x needs  *)
(* Precision bits of significand, and is a value of a format with p bits   *)
(* of precision, greatest exponent emax and least subnormal 2^least iff    *)
(* E <= emax, Precision <= p and its last bit is worth at least 2^least.   *)
(***************************************************************************)
RECURSIVE TrailingZeros(_)
TrailingZeros(k) == IF k % 2 = 1 THEN 0 ELSE 1 + TrailingZeros(k \div 2)

\* Bits of significand the upper 24 bits need (the lower 29 being zero).
Precision(u8) == 24 - TrailingZeros(8388608 + f64Hi(u8))

Unbiased(u8) == f64Exp(u8) - 1023

FitsFormat(u8, emax, p, least) ==
    /\ f64Exp(u8) \notin {0, 2047}
    /\ f64Lo(u8) = 0
    /\ Unbiased(u8) <= emax
    /\ Precision(u8) <= p
    /\ Unbiased(u8) - (Precision(u8) - 1) >= least

IsHalf(u8) == FitsFormat(u8, 15, 11, -24)
IsSingle(u8) == FitsFormat(u8, 127, 24, -149)

\* The binary16 pattern of a half value, as two bytes.
HalfBits(u8) ==
    LET E == Unbiased(u8)
        f == (8388608 + f64Hi(u8)) \div 8192
        b == IF E >= -14 THEN (E + 15) * 1024 + (f - 1024)
             ELSE f \div ShiftLeft(1, -14 - E)
    IN  <<f64Sign(u8) * 128 + b \div 256, b % 256>>

\* The binary32 pattern of a single value, as four bytes.
SingleBits(u8) ==
    LET E == Unbiased(u8)
        f == 8388608 + f64Hi(u8)
        b == IF E >= -126 THEN (E + 127) * 8388608 + (f - 8388608)
             ELSE f \div ShiftLeft(1, -126 - E)
    IN  <<f64Sign(u8) * 128 + b \div 16777216, (b \div 65536) % 256, (b \div 256) % 256, b % 256>>

ShortestFloat(u8) ==
    IF IsHalf(u8) THEN <<MT_FLOAT16>> \o HalfBits(u8)
    ELSE IF IsSingle(u8) THEN <<MT_FLOAT32>> \o SingleBits(u8)
    ELSE <<MT_FLOAT64>> \o u8

\* 65504.0, 65504.00390625, -5.9604644775390625e-8 and 1.401298464324817e-45
FloatExamples ==
    {[value |-> <<64, 239, 252, 0, 0, 0, 0, 0>>,  bytes |-> <<249, 123, 255>>],
     [value |-> <<64, 239, 252, 0, 32, 0, 0, 0>>, bytes |-> <<250, 71, 127, 224, 1>>],
     [value |-> <<190, 112, 0, 0, 0, 0, 0, 0>>,   bytes |-> <<249, 128, 1>>],
     [value |-> <<54, 160, 0, 0, 0, 0, 0, 0>>,    bytes |-> <<250, 0, 0, 0, 1>>]}

\* C13: for every finite non-zero double x, CBOR.Float(x) is built and its
\* encode() is 0xf9 and the binary16 pattern of x if x is a binary16 value
\* (normal or subnormal), else 0xfa and the binary32 pattern if x is a binary32
\* value (normal or subnormal), else 0xfb and the eight bytes of x.
C13_FloatShortest ==
    /\ (res.op = "Float" /\ isFinite(res.value) /\ ~isZero(res.value)) => res.err = ""
    /\ (pc = "encoded" /\ isFinite(obj.value) /\ ~isZero(obj.value)) =>
          /\ cbor = ShortestFloat(obj.value)
          /\ \A e \in FloatExamples : obj.value = e.value => cbor = e.bytes

\* -5.9604644775390625e-8, the least binary16 subnormal, encoded as f9 80 01.
C13_Witness ==
    /\ pc = "encoded"
    /\ obj.value = <<190, 112, 0, 0, 0, 0, 0, 0>>
    /\ cbor = <<249, 128, 1>>

\* C14: CBOR.Float encodes every NaN as f9 7e 00, +Infinity as f9 7c 00,
\* -Infinity as f9 fc 00, +0 as f9 00 00 and -0 as f9 80 00: the constructor
\* accepts each of them and none gets a 32-bit or 64-bit encoding.
C14_FloatSpecials ==
    /\ (res.op = "Float" /\ (~isFinite(res.value) \/ isZero(res.value))) => res.err = ""
    /\ pc = "encoded" =>
          /\ isNaN(obj.value) => cbor = <<249, 126, 0>>
          /\ obj.value = <<127, 240, 0, 0, 0, 0, 0, 0>> => cbor = <<249, 124, 0>>
          /\ obj.value = <<255, 240, 0, 0, 0, 0, 0, 0>> => cbor = <<249, 252, 0>>
          /\ obj.value = <<0, 0, 0, 0, 0, 0, 0, 0>> => cbor = <<249, 0, 0>>
          /\ obj.value = <<128, 0, 0, 0, 0, 0, 0, 0>> => cbor = <<249, 128, 0>>

\* A NaN with every payload bit set, encoded as f9 7e 00.
C14_Witness ==
    /\ pc = "encoded"
    /\ obj.value = <<127, 255, 255, 255, 255, 255, 255, 255>>
    /\ cbor = <<249, 126, 0>>

\* fb 3f f0 .. (1.0 in 64 bits), fb 7f f8 .. and f9 7e 01 (NaN outside f9 7e 00)
NonCanonicalFloats ==
    {<<251, 63, 240, 0, 0, 0, 0, 0, 0>>, <<251, 127, 248, 0, 0, 0, 0, 0, 0>>, <<249, 126, 1>>}

NonDeterministicErrors ==
    {"Non-deterministic N encoding", "Non-deterministic big integer encoding",
     "Non-deterministic order"}

\* C15: strict decode of a floating-point item that is not in its canonical
\* width or pattern fails with a Non-deterministic error, and lenient decode of
\* the same bytes returns the Float.
C15_NonCanonicalFloat ==
    (pc = "decoded" /\ cbor \in NonCanonicalFloats) =>
        IF res.op = "decode"
        THEN res.err \in NonDeterministicErrors
        ELSE res.err = "" /\ obj.kind = "Float"

\* What the decoder does with C15's items: no case of #_decoder.getObject
\* takes the bytes f9, fa, fb, so both decodes end in Unsupported tag.
C15_FloatsUnsupported ==
    (pc = "decoded" /\ cbor \in NonCanonicalFloats) =>
        (res.err = "Unsupported tag" /\ obj = NotCBOR)

\* The decode the last call made, run on other bytes.
SameDecode(bytes) ==
    CASE res.op = "decode" -> decode(bytes)
      [] res.op = "decodeConstrained" -> decodeExtended(initExtended(bytes, FALSE, FALSE, TRUE))
      [] OTHER -> decodeExtended(initExtended(bytes, FALSE, TRUE, FALSE))

\* C16: a decode that is not in sequence mode returns a value only with its
\* cursor at the end of the buffer; when the buffer starts with a whole item
\* and holds more bytes after it, the call throws Unexpected data and returns
\* nothing.
C16_TrailingData ==
    pc = "decoded" =>
        /\ res.err = "" => res.counter = Len(cbor)
        /\ \A k \in 1..(Len(cbor) - 1) :
              SameDecode(SubSeq(cbor, 1, k)).err = ""
                  => (res.err = "Unexpected data encountered after CBOR object"
                        /\ res.counter = k /\ obj = NotCBOR)

\* The array [0] followed by one more byte.
C16_Witness ==
    /\ pc = "decoded" /\ res.op = "decode"
    /\ cbor = <<129, 0, 246>>
    /\ res.err = "Unexpected data encountered after CBOR object"

(***************************************************************************)
(* SpecSequence: a receiver opens a decoder in sequence mode on a buffer   *)
(* that holds up to MaxItems top-level items, one after the other, and     *)
(* possibly the beginning of one more; it then calls decodeExtended until  *)
(* the end-of-sequence null or an error.  obj is the decoder object, hist  *)
(* what the buffer was made of and what the calls so far returned.         *)
(***************************************************************************)
MaxItems == 3

SequenceItems ==
    {CBOR_Null, CBOR_Int([neg |-> FALSE, mag |-> <<>>]), CBOR_Int([neg |-> FALSE, mag |-> <<24>>]),
     CBOR_String(<<97>>), CBOR_Array(<<CBOR_Null>>)}

\* The beginning of an item: 0x18 without its byte, an array of two with one
\* element, a text string of two with one character.
BrokenItems == {<<24>>, <<130, 246>>, <<98, 97>>}

RECURSIVE SequenceBytes(_)
SequenceBytes(items) ==
    IF items = <<>> THEN <<>> ELSE encode(Head(items)) \o SequenceBytes(Tail(items))

SequenceInit ==
    /\ pc = "idle"
    /\ obj = NotCBOR
    /\ cbor = <<>>
    /\ res = [op |-> "none", err |-> ""]
    /\ hist = [items |-> <<>>, rest |-> <<>>, returned |-> <<>>]

\* decoder = CBOR.initExtended(cbor, true, acceptNonDeterministic, false)
OpenSequence(items, rest, acceptNonDeterministic) ==
    /\ pc = "idle"
    /\ Len(items) <= MaxItems
    /\ cbor' = SequenceBytes(items) \o rest
    /\ obj' = initExtended(SequenceBytes(items) \o rest, TRUE, acceptNonDeterministic, FALSE)
    /\ res' = [op |-> "initExtended", err |-> ""]
    /\ hist' = [items |-> items, rest |-> rest, returned |-> <<>>]
    /\ pc' = "open"

\* CBOR.decodeExtended(decoder)
NextItem ==
    /\ pc = "open"
    /\ \E r \in {decodeExtended(obj)} :
           /\ obj' = r.d
           /\ res' = [op |-> "decodeExtended", err |-> r.err, object |-> r.object,
                      start |-> obj.counter]
           /\ hist' = IF r.err = "" THEN [hist EXCEPT !.returned = Append(@, r.object)] ELSE hist
           /\ pc' = IF r.err # "" THEN "failed" ELSE IF r.object = JSnull THEN "ended" ELSE "open"
    /\ UNCHANGED cbor

SequenceNext ==
    \/ \E items \in UNION {SeqsOfLen(SequenceItems, n) : n \in 0..MaxItems},
          rest \in {<<>>} \cup BrokenItems, acceptNonDeterministic \in BOOLEAN :
            OpenSequence(items, rest, acceptNonDeterministic)
    \/ NextItem

SpecSequence == SequenceInit /\ [][SequenceNext]_vars

\* C17: in sequence mode the successive decodeExtended calls return the items
\* of the buffer in order, each call consuming the bytes of one item; a call
\* returns null if and only if it starts with no bytes left; an item f6 is
\* returned as a CBOR.Null object; a buffer that ends inside an item makes the
\* call that reaches it throw instead of returning null.
C17_SequenceMode ==
    pc \in {"open", "ended", "failed"} =>
        LET n == Len(hist.returned) IN
        /\ \A i \in 1..n :
              IF i <= Len(hist.items) THEN hist.returned[i] = hist.items[i]
              ELSE hist.returned[i] = JSnull /\ i = n /\ hist.rest = <<>>
        /\ pc = "open" => obj.counter = Len(SequenceBytes(SubSeq(hist.items, 1, n)))
        /\ (res.op = "decodeExtended" /\ res.err = "") =>
              (res.object = JSnull <=> res.start = Len(cbor))
        /\ pc = "ended" => (n = Len(hist.items) + 1 /\ obj.counter = Len(cbor))
        /\ pc = "failed" =>
              /\ n = Len(hist.items) /\ hist.rest # <<>>
              /\ res.start = Len(SequenceBytes(hist.items))
              /\ res.err = "Reading past end of buffer"

\* Two null items, returned as two CBOR.Null objects, and then the null that
\* ends the sequence.
C17_Witness ==
    /\ pc = "ended"
    /\ cbor = <<246, 246>>
    /\ hist.returned = <<CBOR_Null, CBOR_Null, JSnull>>

\* The encoded keys of a map's entries, along the linked list.
RECURSIVE KeysAlong(_, _)
KeysAlong(m, ids) ==
    IF ids = <<>> THEN <<>> ELSE <<m.entries[Head(ids)].encodedKey>> \o KeysAlong(m, Tail(ids))

Distinct(keys) == \A i, j \in 1..Len(keys) : keys[i] = keys[j] => i = j

\* C18 as the specification states it: lenient decode accepts a map whose keys
\* are out of order or duplicated, and returns it with its entries re-sorted.
C18_LenientAcceptsAll ==
    (pc = "decoded" /\ res.op = "decodeExtended" /\ hist.family = "map") =>
        (res.err = "" /\ obj.kind = "Map" /\ Ascending(KeysAlong(obj, EntriesOf(obj))))

\* C18, amended: lenient decode accepts a map whose keys are out of order and
\* returns a Map that holds every sent key once, its entries in ascending
\* order of the encoded keys (a2 02 63 'two' 01 63 'one' gives {1: "one",
\* 2: "two"}); a map in which a key is repeated is not accepted: the decode
\* throws Duplicate.
C18_LenientResorts ==
    /\ (pc = "decoded" /\ res.op = "decodeExtended" /\ hist.family = "map") =>
          IF Distinct(hist.keys)
          THEN /\ res.err = ""
               /\ obj.kind = "Map"
               /\ MapSize(obj) = Len(hist.keys)
               /\ Ascending(KeysAlong(obj, EntriesOf(obj)))
               /\ {KeysAlong(obj, EntriesOf(obj))[i] : i \in 1..MapSize(obj)}
                      = {hist.keys[i] : i \in 1..Len(hist.keys)}
          ELSE res.err = "Duplicate" /\ obj = NotCBOR
    /\ (pc = "decoded" /\ res.op = "decodeExtended"
          /\ cbor = <<162, 2, 99, 116, 119, 111, 1, 99, 111, 110, 101>>) =>
          /\ res.err = ""
          /\ encode(obj) = <<162, 1, 99, 111, 110, 101, 2, 99, 116, 119, 111>>
          /\ MapGet(obj, CBOR_Int([neg |-> FALSE, mag |-> <<1>>])).value = CBOR_String(<<111, 110, 101>>)

\* Three keys sent as "a", 0, 24 and returned as 0, 24, "a".
C18_Witness ==
    /\ pc = "decoded" /\ res.op = "decodeExtended" /\ res.err = ""
    /\ hist.family = "map"
    /\ hist.keys = <<<<97, 97>>, <<0>>, <<24, 24>>>>
    /\ EntriesOf(obj) = <<2, 3, 1>>

\* CBOR.decode(o.encode()) and o.equals() of what it returned
Canonical(o) ==
    Once(decode(encode(o)), LAMBDA r :
        [err |-> r.err, object |-> r.object,
         equal |-> IF r.err = "" THEN equals(o, r.object) ELSE FALSE])

EqualsKeys == {CBOR_Int([neg |-> FALSE, mag |-> <<1>>]), CBOR_Int([neg |-> TRUE, mag |-> <<1>>]),
               CBOR_String(<<97>>)}
EqualsMaps ==
    {MapOf(<<Pair(k1, e1), Pair(k2, e2)>>) :
        k1 \in EqualsKeys, k2 \in EqualsKeys, e1 \in {CBOR_Null, CBOR_Bool(TRUE)},
        e2 \in {CBOR_Null, CBOR_Bool(TRUE)}}
EqualsIntegers ==
    {i \in SampleIntegers :
        i.mag \in {<<>>, <<1>>, <<23>>, <<24>>, <<1, 0>>, MAX_SAFE_INTEGER, NatInc(MAX_SAFE_INTEGER),
                   TwoTo64}}
EqualsValues ==
    {v \in Scalars : /\ v.kind = "Float" => v.err = ""
                     /\ v.kind \in {"Int", "BigInt"} => v.value \in EqualsIntegers}
        \cup {CBOR_Array(<<>>), CBOR_Array(<<CBOR_Null>>), CBOR_Array(<<CBOR_Array(<<>>)>>)}
        \cup {MapOf(<<>>)}
        \cup EqualsMaps
        \cup {CBOR_Tag(<<>>, CBOR_Null), CBOR_Tag(<<1>>, CBOR_Null)}
EqualsArguments == EqualsValues \cup {NotCBOR, JSnull}

EqualsInit ==
    /\ pc = "start"
    /\ obj = NotCBOR
    /\ cbor = <<>>
    /\ res = [op |-> "none", err |-> ""]
    /\ hist = [other |-> NotCBOR]

\* Two constructor calls: the object and the argument of the comparison.
EqualsConstruct(a, b) ==
    /\ pc = "start"
    /\ obj' = a
    /\ hist' = [other |-> b]
    /\ pc' = "built"
    /\ res' = [op |-> "new", err |-> ""]
    /\ UNCHANGED cbor

\* obj.equals(other)
EqualsCall ==
    /\ pc = "built"
    /\ res' = [op |-> "equals", err |-> "", value |-> equals(obj, hist.other)]
    /\ pc' = "compared"
    /\ UNCHANGED <<obj, cbor, hist>>

EqualsNext ==
    \/ \E a \in EqualsValues, b \in EqualsArguments : EqualsConstruct(a, b)
    \/ EqualsCall

SpecEquals == EqualsInit /\ [][EqualsNext]_vars

CBORKinds == {"Int", "BigInt", "Float", "String", "Bytes", "Bool", "Null", "Array", "Map", "Tag"}

\* The linked entries of a map as a sequence of key/value pairs.
RECURSIVE PairsAlong(_, _)
PairsAlong(m, ids) ==
    IF ids = <<>> THEN <<>>
    ELSE <<Pair(m.entries[Head(ids)].key, m.entries[Head(ids)].value)>> \o PairsAlong(m, Tail(ids))

\* C20: a.equals(b) is true exactly when b is a CBOR value and a.encode() and
\* b.encode() are the same bytes; so an Int and a BigInt of the same safe
\* integer are equal, two maps holding the same pairs are equal whatever the
\* order of insertion, and equals of an argument that is no CBOR value is
\* false.
C20_Equality ==
    (pc = "compared") =>
        /\ res.value = (hist.other.kind \in CBORKinds /\ encode(obj) = encode(hist.other))
        /\ (hist.other.kind \notin CBORKinds) => res.value = FALSE
        /\ (obj.kind = "Int" /\ hist.other.kind = "BigInt" /\ obj.value = hist.other.value)
              => res.value = TRUE
        /\ (obj.kind = "Map" /\ hist.other.kind = "Map"
              /\ {PairsAlong(obj, EntriesOf(obj))[i] : i \in 1..MapSize(obj)}
                   = {PairsAlong(hist.other, EntriesOf(hist.other))[i] : i \in 1..MapSize(hist.other)})
              => res.value = TRUE

\* {-1: null, "a": true} built by set(-1, null).set("a", true) equals the map
\* built by set("a", true).set(-1, null): different objects, the same bytes.
C20_Witness ==
    /\ pc = "compared"
    /\ obj = MapOf(<<Pair(CBOR_Int([neg |-> TRUE, mag |-> <<1>>]), CBOR_Null),
                     Pair(CBOR_String(<<97>>), CBOR_Bool(TRUE))>>)
    /\ hist.other = MapOf(<<Pair(CBOR_String(<<97>>), CBOR_Bool(TRUE)),
                            Pair(CBOR_Int([neg |-> TRUE, mag |-> <<1>>]), CBOR_Null)>>)
    /\ obj # hist.other
    /\ res.value = TRUE

(***************************************************************************)
(* The length limit of the decoder.                                        *)
(***************************************************************************)
\* C21: decoding a byte string, text string, array or map whose header
\* declares a length or count above 0xffffffff fails with "Length limited to
\* 0xffffffff", in CBOR.decode and in lenient CBOR.decodeExtended alike, with
\* the cursor right after the 9 header bytes: no content byte was read.  A
\* declared length of 0xffffffff itself does not give that error.
C21_LengthLimited ==
    (pc = "decoded" /\ hist.family = "length")
        => IF NatCmp(StripZeros(hist.field), <<255, 255, 255, 255>>) > 0
           THEN /\ res.err = "Length limited to 0xffffffff"
                /\ obj = NotCBOR
                /\ res.counter = 1 + Len(hist.field)
           ELSE res.err # "Length limited to 0xffffffff"

\* A lenient decode of an array that declares 0x100000000 elements and has
\* content bytes after its header has failed on the limit.
C21_Witness ==
    /\ pc = "decoded" /\ res.op = "decodeExtended"
    /\ cbor = <<MT_ARRAY + 27, 0, 0, 0, 1, 0, 0, 0, 0, 0, MT_NULL, 1>>
    /\ res.err = "Length limited to 0xffffffff"
    /\ res.counter = 9

(***************************************************************************)
(* Nesting depth.                                                          *)
(***************************************************************************)
\* The number of arrays and maps around the innermost item of an object.
RECURSIVE NestingDepth(_)
NestingDepth(o) ==
    CASE o.kind = "Array" ->
            IF o.elements = <<>> THEN 1 ELSE 1 + NestingDepth(o.elements[1])
      [] o.kind = "Map" ->
            IF o.root = 0 THEN 1 ELSE 1 + NestingDepth(o.entries[o.root].value)
      [] OTHER -> 0

\* C22: the decoder bounds the nesting depth of arrays and maps: an input
\* nested deeper than the bound fails to decode.  Stated for the deepest input
\* sent, which lies above any bound below MaxNesting.
C22_DepthLimit ==
    (pc = "decoded" /\ hist.family = "nested" /\ hist.depth = MaxNesting) => res.err # ""

\* What getObject does instead: it recurses once per level and returns the
\* object at every depth sent, in strict and in lenient mode.
C22_DecodesAtEveryDepth ==
    (pc = "decoded" /\ hist.family = "nested") =>
        /\ res.err = ""
        /\ NestingDepth(obj) = hist.depth
        /\ encode(obj) = cbor

(***************************************************************************)
(* The constrained map keys option.                                        *)
(***************************************************************************)
ConstrainedErrors ==
    {"Constrained key option disallows", "Constrained key option disallows mixing types"}

\* The keys of a map in list order.
RECURSIVE KeyObjectsAlong(_, _)
KeyObjectsAlong(m, ids) ==
    IF ids = <<>> THEN <<>> ELSE <<m.entries[Head(ids)].key>> \o KeyObjectsAlong(m, Tail(ids))

\* Every map in the object has keys that are all Int or all String.
RECURSIVE PlainKeyed(_)
PlainKeyed(o) ==
    CASE o.kind = "Array" -> \A i \in 1..Len(o.elements) : PlainKeyed(o.elements[i])
      [] o.kind = "Tag"   -> PlainKeyed(o.object)
      [] o.kind = "Map"   ->
            LET keys == KeyObjectsAlong(o, EntriesOf(o)) IN
            /\ \A i \in 1..Len(keys) :
                   /\ keys[i].kind \in {"Int", "String"}
                   /\ keys[i].kind = keys[1].kind
            /\ \A id \in {EntriesOf(o)[i] : i \in 1..Len(EntriesOf(o))} :
                   PlainKeyed(o.entries[id].value)
      [] OTHER -> TRUE

\* The object holds a Float or a Tag somewhere.
RECURSIVE HoldsFloatOrTag(_)
HoldsFloatOrTag(o) ==
    CASE o.kind \in {"Float", "Tag"} -> TRUE
      [] o.kind = "Array" -> \E i \in 1..Len(o.elements) : HoldsFloatOrTag(o.elements[i])
      [] o.kind = "Map"   ->
            \E id \in {EntriesOf(o)[i] : i \in 1..Len(EntriesOf(o))} :
                HoldsFloatOrTag(o.entries[id].key) \/ HoldsFloatOrTag(o.entries[id].value)
      [] OTHER -> FALSE

ConstrainedOutcome ==
    IF res.op = "decodeConstrained"
    THEN IF PlainKeyed(hist.object)
         THEN res.err = "" /\ encode(obj) = cbor
         ELSE res.err \in ConstrainedErrors /\ obj = NotCBOR
    ELSE res.err = "" /\ encode(obj) = cbor

\* C23: with constrainedMapKeys, decoding a map fails with a "Constrained
\* key" error if a key is no Int and no String or if the keys are not all of
\* one kind, and succeeds if the keys are all Int or all String; without the
\* option the same inputs decode.
C23_ConstrainedKeys ==
    (pc = "decoded" /\ hist.family = "constrained") => ConstrainedOutcome

\* C23 for the maps that hold no Float and no Tag.
C23_ConstrainedKeysOfDecodable ==
    (pc = "decoded" /\ hist.family = "constrained" /\ ~HoldsFloatOrTag(hist.object))
        => ConstrainedOutcome

\* The maps with a Float or a Tag as a key end in the decoder's error for
\* floats and tags: without the option always, with the option unless a key
\* read before it has raised the "Constrained key" error.
C23_FloatAndTagKeys ==
    (pc = "decoded" /\ hist.family = "constrained" /\ HoldsFloatOrTag(hist.object))
        => /\ res.err \in {"Unsupported tag", "ReferenceError: getObject is not defined"}
                            \cup IF res.op = "decodeConstrained" THEN ConstrainedErrors ELSE {}
           /\ Len(hist.object.entries) = 1 =>
                  res.err \in {"Unsupported tag", "ReferenceError: getObject is not defined"}

(***************************************************************************)
(* The Map as a finite mapping.                                            *)
(***************************************************************************)
\* The pairs a map holds, along its list.
RECURSIVE PairsFrom(_, _, _)
PairsFrom(m, entry, fuel) ==
    IF entry = 0 \/ fuel = 0 THEN {}
    ELSE {Pair(m.entries[entry].key, m.entries[entry].value)}
             \cup PairsFrom(m, m.entries[entry].next, fuel - 1)
PairsOf(m) == PairsFrom(m, m.root, Len(m.entries) + 1)

TagSent ==
    /\ pc = "decoded" /\ hist.family = "header" /\ hist.major = MT_TAG
    /\ res.op = "decodeExtended" \/ ~Shorter(hist.field)

\* C25: decoding a tag header with tag number n followed by one item returns
\* the CBOR.Tag of n around that item, whose encode() is the tag header for n
\* followed by the item's encoding.
C25_TagDecode ==
    TagSent =>
        /\ res.err = ""
        /\ obj = CBOR_Tag(StripZeros(hist.field), CBOR_Int(Nat0))
        /\ encode(obj) = NativeForm(MT_TAG, StripZeros(hist.field)) \o <<0>>

\* What the decoder does with every tag: the call of getObject without this
\* ends the decode, right after the header.
C25_TagsThrow ==
    TagSent =>
        /\ res.err = "ReferenceError: getObject is not defined"
        /\ obj = NotCBOR
        /\ res.counter = 1 + Len(hist.field)

\* The pairs of a set of pairs whose key encodes as the given key does.
Holding(pairs, key) == {p \in pairs : encode(p.key) = encode(key)}

\* One call on a map that is a finite mapping keyed by encoded key, from the
\* pairs hist held before the call to the result and the pairs held after it.
FiniteMapStep ==
    \A held \in {Holding(hist, res'.key)} :
        /\ Cardinality(held) <= 1
        /\ res'.op = "set" =>
               IF res'.err = ""
               THEN held = {} /\ hist' = hist \cup {Pair(res'.key, res'.value)}
               ELSE obj' = obj /\ hist' = hist
        /\ res'.op = "containsKey" => res'.value = (held # {}) /\ obj' = obj
        /\ res'.op = "get" =>
               /\ obj' = obj
               /\ IF held # {}
                  THEN res'.err = "" /\ \A p \in held : res'.value = p.value
                  ELSE res'.err = "Missing key"
        /\ res'.op = "remove" =>
               IF held # {}
               THEN /\ res'.err = "" /\ \A p \in held : res'.value = p.value
                    /\ hist' = hist \ held
               ELSE res'.err = "Missing key" /\ obj' = obj /\ hist' = hist

\* C26: a Map is a finite mapping keyed by encoded key.  After every step the
\* pairs along the list of the map are the pairs hist, and in every set,
\* remove, get and containsKey call on a new map after any earlier calls:
\* containsKey(k) is true and get(k) returns the value set exactly when the map holds a pair whose key encodes as k does,
\* and there is at most one; a successful set adds its pair and nothing else;
\* remove(k) returns the value held and takes out that pair only; get(k) and
\* remove(k) of an absent key throw "Missing key" and leave the map as it
\* was.
C26_FiniteMap ==
    [][/\ PairsOf(obj') = hist'
       /\ res'.op \in {"set", "remove", "get", "containsKey"} => FiniteMapStep]_vars

\* get of the BigInt 1 has returned the value that was set under the Int 1,
\* in a map that holds another pair as well.
C26_Witness ==
    /\ res.op = "get" /\ res.err = ""
    /\ res.key = CBOR_BigInt([neg |-> FALSE, mag |-> <<1>>])
    /\ Pair(CBOR_Int([neg |-> FALSE, mag |-> <<1>>]), res.value) \in PairsOf(obj)
    /\ MapSize(obj) = 2

\* An encoded map holds as many pairs after its header as the header says:
\* the bytes are the header for count followed by count pairs of the map.
HeaderCounts(m, bytes) ==
    /\ Len(bytes) >= 1
    /\ bytes[1] = MT_MAP + Len(EntriesOf(m))
    /\ bytes = <<bytes[1]>> \o PairBytes(PairsAlong(m, EntriesOf(m)))

\* C27: in every map, new or decoded, after any set, remove and encode calls,
\* those that throw included (duplicate key, missing key, constrained key,
\* argument that is no CBOR object), size() is the number of entries along the
\* list from #root, and the bytes encode() returns start with the header for
\* that number, followed by that many key/value pairs.
C27_SizeIsEntryCount ==
    obj.kind = "Map" =>
        /\ MapSize(obj) = Len(EntriesOf(obj))
        /\ res.op = "encode" => HeaderCounts(obj, cbor)

\* A decoded map with constrained keys of two entries, after a set that
\* threw on the kind of its key.
C27_Witness ==
    /\ obj.kind = "Map" /\ obj.constrainedKeys
    /\ res.op = "set" /\ res.err = "Constrained key option disallows mixing types"
    /\ MapSize(obj) = 2 /\ Len(EntriesOf(obj)) = 2

\* Every kind of throwing call happens, and removes that empty the map.
C27_WitnessDuplicate == res.op = "set" /\ res.err = "Duplicate" /\ MapSize(obj) = 2
C27_WitnessMissing == res.op = "remove" /\ res.err = "Missing key" /\ MapSize(obj) = 1
C27_WitnessArgument ==
    res.op = "set" /\ res.err = "Argument is not a CBOR object" /\ MapSize(obj) = 1
C27_WitnessEmptied ==
    res.op = "remove" /\ res.err = "" /\ MapSize(obj) = 0 /\ Len(obj.entries) = 2

(***************************************************************************)
(* Arrays and maps as keys.  A key is an object reference: the Entry keeps  *)
(* the object the caller passed, so a call the caller makes on that object *)
(* afterwards acts on entry.key, while entry.encodedKey is the byte array   *)
(* computed in the Entry constructor.                                      *)
(***************************************************************************)
\* CBOR.Array.add(element): [err, array]
ArrayAdd(array, element) ==
    IF ~cborArguentCheck(element) THEN [err |-> "Argument is not a CBOR object", array |-> array]
    ELSE [err |-> "", array |-> [array EXCEPT !.elements = Append(@, element)]]

MaxAdded == 2
KeyedKeys == {CBOR_Array(<<>>), CBOR_Map, CBOR_Int(Nat0)}
LookedUpKeys == KeyedKeys \cup {CBOR_Array(<<CBOR_Int(Nat0)>>)}
AddedElements == {CBOR_Int(Nat0), NotCBOR}
InnerKeys == {CBOR_Int(Nat0)}

\* The entries of a map along its list, as a set.
Linked(m) == {EntriesOf(m)[i] : i \in 1..Len(EntriesOf(m))}

\* key.add(element), key being the Array that was passed to map.set before
KeyAddCall(id, element) ==
    /\ pc = "live"
    /\ id \in Linked(obj) /\ obj.entries[id].key.kind = "Array"
    /\ Len(obj.entries[id].key.elements) < MaxAdded
    /\ \E r \in {ArrayAdd(obj.entries[id].key, element)} :
           /\ obj' = [obj EXCEPT !.entries[id].key = r.array]
           /\ res' = [op |-> "key.add", err |-> r.err, key |-> r.array]
    /\ cbor' = <<>>
    /\ UNCHANGED <<pc, hist>>

\* key.set(innerKey, value), key being the Map that was passed to map.set before
KeySetCall(id, innerKey, value) ==
    /\ pc = "live"
    /\ id \in Linked(obj) /\ obj.entries[id].key.kind = "Map"
    /\ Len(obj.entries[id].key.entries) < MaxAdded
    /\ \E r \in {MapSet(obj.entries[id].key, innerKey, value)} :
           /\ obj' = [obj EXCEPT !.entries[id].key = r.map]
           /\ res' = [op |-> "key.set", err |-> r.err, key |-> r.map]
    /\ cbor' = <<>>
    /\ UNCHANGED <<pc, hist>>

\* key.remove(innerKey), key being the Map that was passed to map.set before
KeyRemoveCall(id, innerKey) ==
    /\ pc = "live"
    /\ id \in Linked(obj) /\ obj.entries[id].key.kind = "Map"
    /\ \E r \in {MapRemove(obj.entries[id].key, innerKey)} :
           /\ obj' = [obj EXCEPT !.entries[id].key = r.map]
           /\ res' = [op |-> "key.remove", err |-> r.err, key |-> r.map]
    /\ cbor' = <<>>
    /\ UNCHANGED <<pc, hist>>

KeyedNext ==
    \/ \E key \in KeyedKeys : SetCall(key, CBOR_Null)
    \/ \E key \in LookedUpKeys : RemoveCall(key)
    \/ \E key \in LookedUpKeys : ContainsKeyCall(key)
    \/ MapEncodeCall
    \/ \E id \in 1..MaxEntries, element \in AddedElements : KeyAddCall(id, element)
    \/ \E id \in 1..MaxEntries, innerKey \in InnerKeys : KeySetCall(id, innerKey, CBOR_Null)
    \/ \E id \in 1..MaxEntries, innerKey \in InnerKeys : KeyRemoveCall(id, innerKey)

SpecKeyed == MapInit /\ [][KeyedNext]_vars

\* The cached encoded key of every entry is the encoding of its key.
CachedKeysCurrent(m) ==
    \A id \in Linked(m) : m.entries[id].encodedKey = encode(m.entries[id].key)

\* C28: for every entry of a Map, the encoded key cached at insertion is the
\* current entry.key.encode(), after any calls, add, set and remove calls on
\* an Array or Map that is a key of the map included.
C28_CachedKeyCurrent == CachedKeysCurrent(obj)

\* What holds instead: a call that is not made on a key object keeps the
\* cached keys current if they were.
C28_CurrentUnlessKeyCalled ==
    [][(CachedKeysCurrent(obj) /\ res'.op \notin {"key.add", "key.set", "key.remove"})
          => CachedKeysCurrent(obj')]_vars

\* After key.add on an Array key the map does not contain the key it encodes:
\* the lookup goes by the cached bytes and encode() by the key object.
C28_KeyNeverLost ==
    (res.op = "containsKey" /\ res.key \in {obj.entries[id].key : id \in Linked(obj)})
        => res.value

(***************************************************************************)
(* The checks of the CBOR.Float constructor marked FOR REMOVAL.             *)
(***************************************************************************)
\* The argument is a genuine number that Math.fround returns unchanged.
FroundExact(u8) == ~isNaN(u8) /\ isFinite(u8) /\ ~isZero(u8) /\ fround(u8) = u8

\* The turns of the loop that forms a 32-bit subnormal: f32exp is decremented
\* once and then counted up to 0, one shift per turn.
SubnormalShifts(u8) == 1 - (f64Exp(u8) - 1023 + 127)

\* C29: CBOR.Float(x) throws for no number x: whenever Math.fround(x) == x,
\* the low 29 significand bits of x are zero ("unexpected fraction" is not
\* reached), and when x is below the 32-bit normal range, the bits the loop
\* shifts out of the 24-bit significand are all zero ("unexpected offscale"
\* is not reached).
C29_FloatNeverThrows ==
    /\ pc # "threw"
    /\ (res.op = "Float" /\ FroundExact(res.value)) =>
           /\ f64Lo(res.value) = 0
           /\ res.err = ""
           /\ SubnormalShifts(res.value) >= 1 =>
                  (8388608 + f64Hi(res.value)) % ShiftLeft(1, SubnormalShifts(res.value)) = 0

\* 1.0000000001 * 2^-138 with 12 shifts: a 32-bit subnormal whose last set
\* bit is the last bit the format holds; the constructor has built it as a
\* 32-bit float.
C29_Witness ==
    /\ pc = "built" /\ res.op = "Float"
    /\ f64Exp(res.value) = 885 /\ f64Hi(res.value) = 4096 /\ f64Lo(res.value) = 0
    /\ FroundExact(res.value)
    /\ SubnormalShifts(res.value) = 12
    /\ obj.tag = MT_FLOAT32

(***************************************************************************)
(* SpecCursor: a decoder, in sequence mode or not, on a buffer of whole    *)
(* items and possibly the beginning of one more, under decodeExtended      *)
(* calls.  obj is the decoder object; res.start is the cursor before the   *)
(* last call and obj.counter the cursor after it.                          *)
(***************************************************************************)
\* decoder = CBOR.initExtended(cbor, sequenceFlag, acceptNonDeterministic, false)
OpenDecoder(items, rest, sequenceFlag, acceptNonDeterministic) ==
    /\ pc = "idle"
    /\ Len(items) <= MaxItems
    /\ cbor' = SequenceBytes(items) \o rest
    /\ obj' = initExtended(SequenceBytes(items) \o rest, sequenceFlag, acceptNonDeterministic,
                           FALSE)
    /\ res' = [op |-> "initExtended", err |-> ""]
    /\ hist' = [items |-> items, rest |-> rest, returned |-> <<>>]
    /\ pc' = "open"

CursorNext ==
    \/ \E items \in UNION {SeqsOfLen(SequenceItems, n) : n \in 0..MaxItems},
          rest \in {<<>>} \cup BrokenItems, sequenceFlag \in BOOLEAN,
          acceptNonDeterministic \in BOOLEAN :
            OpenDecoder(items, rest, sequenceFlag, acceptNonDeterministic)
    \/ NextItem

SpecCursor == SequenceInit /\ [][CursorNext]_vars

\* C30: over any decodeExtended calls on one decoder the cursor does not
\* decrease and does not pass the end of the buffer; a call that starts with
\* the cursor at the end raises "Reading past end of buffer" and, in sequence
\* mode, returns the end-of-sequence null instead, the cursor staying where
\* it is either way; a call that reaches the end of the buffer inside an item
\* raises "Reading past end of buffer" with the cursor at the end.
C30_CursorSafety ==
    res.op = "decodeExtended" =>
        /\ res.start <= obj.counter
        /\ obj.counter <= Len(cbor)
        /\ res.start = Len(cbor) =>
               /\ obj.counter = res.start
               /\ IF obj.sequenceFlag THEN res.err = "" /\ res.object = JSnull
                  ELSE res.err = "Reading past end of buffer"
        /\ res.err = "Reading past end of buffer" => obj.counter = Len(cbor)
        /\ (res.start = Len(SequenceBytes(hist.items)) /\ hist.rest # <<>>) =>
               res.err = "Reading past end of buffer"
        /\ (res.err = "" /\ res.object # JSnull) => res.start < obj.counter

\* A decoder that is not in sequence mode has returned its one item and is
\* called again: the read at the end of the buffer has raised the error.
C30_Witness ==
    /\ res.op = "decodeExtended" /\ ~obj.sequenceFlag
    /\ Len(hist.returned) = 1
    /\ res.start = Len(cbor) /\ obj.counter = Len(cbor) /\ Len(cbor) > 0
    /\ res.err = "Reading past end of buffer"

\* In sequence mode the text string of two that holds one character ends the
\* third call with the cursor at the end of the buffer.
C30_WitnessInside ==
    /\ res.op = "decodeExtended" /\ obj.sequenceFlag
    /\ hist.rest = <<98, 97>> /\ Len(hist.returned) = 2
    /\ res.err = "Reading past end of buffer"
    /\ res.start < Len(cbor) /\ obj.counter = Len(cbor)

====
